---- MODULE Spec2Model ----
(***************************************************************************)
(* Capability-manifest migration and validation engine of MagicTunnel:     *)
(*   tools/migration/migrate_yaml_to_enhanced.py  (YamlMigrationTool)      *)
(*   tools/validation/validate_yaml_migration.py  (YamlMigrationValidator) *)
(*                                                                         *)
(* A parsed YAML document is a tree of tagged nodes [kind, val]; a file is *)
(* its provenance header (the migration date) plus the document that       *)
(* yaml.safe_load returns for its text.  Python exceptions are modelled by *)
(* ...Raises predicates that state when the corresponding code raises.     *)
(***************************************************************************)
EXTENDS Integers, Sequences, FiniteSets, TLC

VARIABLES
    fs,          \* file system: path -> file (exists, hdr, doc)
    fs0,         \* history: the file system at construction time
    now,         \* wall clock read by datetime.now() in the header
    create_backup,   \* MigrationConfig.create_backup
    migration_stats, \* YamlMigrationTool.migration_stats
    mPc,         \* position of the migration tool: idle / loop / returned / raised
    mIn,         \* input argument of the last top-level call of the tool
    mOut,        \* output_dir argument of the running migrate_directory
    yaml_files,  \* the list enumerated by the running migrate_directory
    mIdx,        \* index of the next file of yaml_files
    outcome,     \* per-file lines printed by the running migrate_directory
    calls,       \* number of top-level operations started so far
    order,       \* ordered run: the order in which the workers take the files
    results,     \* YamlMigrationValidator.results, per validator instance
    vPath,       \* the path argument of the validation main()
    vPc,         \* position of each validator: start / loop / print / ...
    vFiles,      \* yaml_files of the running validate_directory
    vIdx,        \* index of the next file to validate
    verdict,     \* what print_results printed and returned
    exitStatus,  \* process exit status of the validation main()
    ident,       \* classifier run: the file identifier (file stem)
    meta,        \* classifier run: the legacy metadata mapping
    classified,  \* classifier run: result tuple of _classify_capability
    doc,         \* manifest run: the parsed input document
    docStem,     \* manifest run: stem of the file the document came from
    docPhase,    \* manifest run: which functions were applied so far
    enhancedO,   \* manifest run: answer of _is_already_enhanced
    enhancedV,   \* manifest run: answer of _is_enhanced_format
    migratedDoc, \* manifest run: result of _migrate_yaml_content
    docDiags,    \* manifest run: diagnostics of validating doc
    migDiags,    \* manifest run: diagnostics of validating migratedDoc
    legacyTool,  \* tool run: the legacy tool mapping the caller holds
    enhancedTool,    \* tool run: result of _migrate_tool_to_enhanced
    toolPhase    \* tool run: given / migrated / raised

vars == <<fs, fs0, now, create_backup, migration_stats, mPc, mIn, mOut,
          yaml_files, mIdx, outcome, calls, order, results, vPath, vPc, vFiles,
          vIdx, verdict, exitStatus, ident, meta, classified, doc, docStem,
          docPhase, enhancedO, enhancedV, migratedDoc, docDiags, migDiags,
          legacyTool, enhancedTool, toolPhase>>

migrationVars == <<fs, fs0, now, create_backup, migration_stats, mPc, mIn,
                   mOut, yaml_files, mIdx, outcome, calls, order>>
validatorVars == <<results, vPath, vPc, vFiles, vIdx, verdict, exitStatus>>
classifierVars == <<ident, meta, classified>>
manifestVars == <<doc, docStem, docPhase, enhancedO, enhancedV, migratedDoc,
                  docDiags, migDiags>>
toolVars == <<legacyTool, enhancedTool, toolPhase>>

-----------------------------------------------------------------------------
(* YAML / Python values *)

Str(s) == [kind |-> "str", val |-> s]
Bool(b) == [kind |-> "bool", val |-> b]
Num(n) == [kind |-> "int", val |-> n]
Null == [kind |-> "null", val |-> 0]
List(seq) == [kind |-> "list", val |-> seq]
Dict(f) == [kind |-> "dict", val |-> f]
EmptyDict == Dict(<<>>)
EmptyList == List(<<>>)

IsDict(n) == n.kind = "dict"
IsList(n) == n.kind = "list"
IsStr(n) == n.kind = "str"

\* Python truth value of a node (bool(x))
Truthy(n) ==
    CASE n.kind = "str" -> n.val # ""
      [] n.kind = "bool" -> n.val
      [] n.kind = "int" -> n.val # 0
      [] n.kind = "null" -> FALSE
      [] n.kind = "list" -> Len(n.val) > 0
      [] n.kind = "dict" -> DOMAIN n.val # {}

\* key in d
Has(d, k) == k \in DOMAIN d.val
\* d.get(k, default); d.get raises AttributeError unless d is a dict
Get(d, k, default) == IF Has(d, k) THEN d.val[k] ELSE default
GetRaises(d) == ~IsDict(d)
\* d[k] = v
Put(d, k, v) == Dict((k :> v) @@ d.val)

\* str(x) / f"{x}" of a scalar node; containers print as their Python repr,
\* which no rule of the tools inspects, so one placeholder stands for it.
Fmt(n) ==
    CASE n.kind = "str" -> n.val
      [] n.kind = "null" -> "None"
      [] n.kind = "bool" -> (IF n.val THEN "True" ELSE "False")
      [] n.kind = "int" -> ToString(n.val)
      [] n.kind = "list" -> "[...]"
      [] n.kind = "dict" -> "{...}"

-----------------------------------------------------------------------------
(* Python string methods *)

UpperAlphabet == "ABCDEFGHIJKLMNOPQRSTUVWXYZ"
LowerAlphabet == "abcdefghijklmnopqrstuvwxyz"

Char(s, i) == SubSeq(s, i, i)
IsUpperChar(c) == \E k \in 1..26 : Char(UpperAlphabet, k) = c
IsLowerChar(c) == \E k \in 1..26 : Char(LowerAlphabet, k) = c
LowerChar(c) ==
    IF IsUpperChar(c)
    THEN Char(LowerAlphabet, CHOOSE k \in 1..26 : Char(UpperAlphabet, k) = c)
    ELSE c
UpperChar(c) ==
    IF IsLowerChar(c)
    THEN Char(UpperAlphabet, CHOOSE k \in 1..26 : Char(LowerAlphabet, k) = c)
    ELSE c

\* s.lower()
RECURSIVE Lower(_)
Lower(s) ==
    IF s = "" THEN ""
    ELSE LowerChar(Char(s, 1)) \o Lower(SubSeq(s, 2, Len(s)))

\* w in s
Contains(s, w) ==
    \E i \in 1..(Len(s) - Len(w) + 1) : SubSeq(s, i, i + Len(w) - 1) = w

\* s.startswith(w)
StartsWith(s, w) == Len(s) >= Len(w) /\ SubSeq(s, 1, Len(w)) = w

\* s.replace(a, b) for a one-character a
RECURSIVE Replace(_, _, _)
Replace(s, a, b) ==
    IF s = "" THEN ""
    ELSE (IF Char(s, 1) = a THEN b ELSE Char(s, 1))
         \o Replace(SubSeq(s, 2, Len(s)), a, b)

\* s.title(): a letter that follows a non-letter is upper-cased, any other
\* letter is lower-cased
RECURSIVE TitleFrom(_, _)
TitleFrom(s, afterLetter) ==
    IF s = "" THEN ""
    ELSE LET c == Char(s, 1)
             letter == IsUpperChar(c) \/ IsLowerChar(c)
         IN (IF afterLetter THEN LowerChar(c) ELSE UpperChar(c))
            \o TitleFrom(SubSeq(s, 2, Len(s)), letter)
Title(s) == TitleFrom(s, FALSE)

\* sep.join(seq)
RECURSIVE Join(_, _)
Join(sep, seq) ==
    IF Len(seq) = 0 THEN ""
    ELSE IF Len(seq) = 1 THEN seq[1]
    ELSE seq[1] \o sep \o Join(sep, Tail(seq))

\* any(word in s for word in words)
AnyIn(words, s) == \E i \in 1..Len(words) : Contains(s, words[i])

\* k in x, for the containers the documents hold: a dict tests its keys, a
\* list its elements, a string its substrings; any other operand raises
\* TypeError (InRaises).
In(k, x) ==
    CASE x.kind = "dict" -> Has(x, k)
      [] x.kind = "list" -> \E i \in 1..Len(x.val) : x.val[i] = Str(k)
      [] x.kind = "str" -> Contains(x.val, k)
      [] OTHER -> FALSE
InRaises(x) == x.kind \in {"null", "int", "bool"}

\* x in words, for a list of string constants
InWords(x, words) == IsStr(x) /\ \E i \in 1..Len(words) : words[i] = x.val

\* [k for k in seq if k not in d], for a dict d
RECURSIVE MissingKeys(_, _)
MissingKeys(seq, d) ==
    IF Len(seq) = 0 THEN <<>>
    ELSE (IF Has(d, Head(seq)) THEN <<>> ELSE <<Head(seq)>>)
         \o MissingKeys(Tail(seq), d)

-----------------------------------------------------------------------------
(* validate_yaml_migration.py: YamlMigrationValidator *)

ERROR == "ERROR"
WARNING == "WARNING"
INFO == "INFO"
SUCCESS == "SUCCESS"

ValidationResult(file_path, level, message) ==
    [file_path |-> file_path, level |-> level, message |-> message]

\* What a check leaves behind: the results it appended and whether it ended
\* by an exception that nothing in the validator catches.
Returned(diags) == [diags |-> diags, raised |-> FALSE]
Raised(diags) == [diags |-> diags, raised |-> TRUE]
Then(a, b) ==
    IF a.raised THEN a
    ELSE [diags |-> a.diags \o b.diags, raised |-> b.raised]
When(cond, diag) == Returned(IF cond THEN <<diag>> ELSE <<>>)

required_enhanced_tool_sections ==
    <<"name", "core", "execution", "discovery", "monitoring", "access">>
valid_security_levels ==
    <<"safe", "restricted", "mixed", "privileged", "dangerous", "blocked">>
valid_complexity_levels ==
    <<"simple", "moderate", "complex", "varied", "very_complex">>

BoolToInt(b) == IF b THEN 1 ELSE 0

\* the format detector counting the sections of every tool, not of the first
_is_enhanced_format_any_tool(content) ==
    IF ~IsDict(content) THEN FALSE
    ELSE
    LET metadata == Get(content, "metadata", EmptyDict)
        tools == Get(content, "tools", EmptyList)
    IN IF IsDict(metadata)
          /\ (\/ Has(metadata, "classification")
              \/ Has(metadata, "discovery_metadata")
              \/ Has(metadata, "mcp_capabilities"))
       THEN TRUE
       ELSE IF IsList(tools) /\ Truthy(tools)
       THEN \E i \in 1..Len(tools.val) :
               /\ IsDict(tools.val[i])
               /\ BoolToInt(Has(tools.val[i], "core"))
                    + BoolToInt(Has(tools.val[i], "execution"))
                    + BoolToInt(Has(tools.val[i], "discovery"))
                    + BoolToInt(Has(tools.val[i], "monitoring"))
                    + BoolToInt(Has(tools.val[i], "access")) >= 3
       ELSE FALSE

_is_enhanced_format(content) ==
    IF ~IsDict(content) THEN FALSE
    ELSE
    LET metadata == Get(content, "metadata", EmptyDict)
        tools == Get(content, "tools", EmptyList)
    IN IF IsDict(metadata)
          /\ (\/ Has(metadata, "classification")
              \/ Has(metadata, "discovery_metadata")
              \/ Has(metadata, "mcp_capabilities"))
       THEN TRUE
       ELSE IF IsList(tools) /\ Truthy(tools) /\ IsDict(tools.val[1])
       THEN LET first_tool == tools.val[1]
                enhanced_sections ==
                    BoolToInt(Has(first_tool, "core"))
                    + BoolToInt(Has(first_tool, "execution"))
                    + BoolToInt(Has(first_tool, "discovery"))
                    + BoolToInt(Has(first_tool, "monitoring"))
                    + BoolToInt(Has(first_tool, "access"))
            IN enhanced_sections >= 3
       ELSE FALSE

_validate_classification(file_path, classification) ==
    LET security_level == Get(classification, "security_level", Null)
        complexity_level == Get(classification, "complexity_level", Null)
    IN Then(
        When(Truthy(security_level)
                /\ ~InWords(security_level, valid_security_levels),
             ValidationResult(file_path, ERROR,
                "Invalid security_level: " \o Fmt(security_level)
                \o ". Must be one of: " \o Join(", ", valid_security_levels))),
        When(Truthy(complexity_level)
                /\ ~InWords(complexity_level, valid_complexity_levels),
             ValidationResult(file_path, ERROR,
                "Invalid complexity_level: " \o Fmt(complexity_level)
                \o ". Must be one of: "
                \o Join(", ", valid_complexity_levels))))

_validate_discovery_metadata(file_path, discovery_metadata) ==
    LET required_fields == <<"primary_keywords", "semantic_embeddings",
                             "llm_enhanced", "workflow_enabled">>
        missing_fields == MissingKeys(required_fields, discovery_metadata)
    IN When(Len(missing_fields) > 0,
            ValidationResult(file_path, WARNING,
                "Missing recommended discovery_metadata fields: "
                \o Join(", ", missing_fields)))

_validate_mcp_capabilities(file_path, mcp_capabilities) ==
    LET version == Get(mcp_capabilities, "version", Null)
        required_capabilities ==
            <<"supports_cancellation", "supports_progress",
              "supports_sampling", "supports_validation",
              "supports_elicitation">>
        missing_capabilities ==
            MissingKeys(required_capabilities, mcp_capabilities)
    IN Then(
        When(version # Str("2025-06-18"),
             ValidationResult(file_path, ERROR,
                "Invalid MCP version: " \o Fmt(version)
                \o ". Expected: 2025-06-18")),
        When(Len(missing_capabilities) > 0,
             ValidationResult(file_path, WARNING,
                "Missing MCP capability declarations: "
                \o Join(", ", missing_capabilities))))

\* the fields of <<name, description, version, author>> that are absent from
\* metadata or hold a false value
RECURSIVE MissingOrFalsy(_, _)
MissingOrFalsy(fields, metadata) ==
    IF Len(fields) = 0 THEN <<>>
    ELSE (IF ~Has(metadata, Head(fields))
             \/ ~Truthy(metadata.val[Head(fields)])
          THEN <<Head(fields)>> ELSE <<>>)
         \o MissingOrFalsy(Tail(fields), metadata)

_validate_enhanced_metadata(file_path, metadata) ==
    IF ~IsDict(metadata)
    THEN Returned(<<ValidationResult(file_path, ERROR,
                        "Enhanced format requires metadata object")>>)
    ELSE
    LET missing_fields ==
            MissingOrFalsy(<<"name", "description", "version", "author">>,
                           metadata)
        classification == Get(metadata, "classification", EmptyDict)
        discovery_metadata == Get(metadata, "discovery_metadata", EmptyDict)
        mcp_capabilities == Get(metadata, "mcp_capabilities", EmptyDict)
    IN Then(
        When(Len(missing_fields) > 0,
             ValidationResult(file_path, ERROR,
                "Missing required metadata fields: "
                \o Join(", ", missing_fields))),
       Then(
        IF IsDict(classification)
        THEN _validate_classification(file_path, classification)
        ELSE Returned(<<>>),
       Then(
        IF IsDict(discovery_metadata)
        THEN _validate_discovery_metadata(file_path, discovery_metadata)
        ELSE Returned(<<>>),
        IF IsDict(mcp_capabilities)
        THEN _validate_mcp_capabilities(file_path, mcp_capabilities)
        ELSE Returned(<<>>))))

_validate_tool_core(file_path, tool_name, core) ==
    IF GetRaises(core) THEN Raised(<<>>)
    ELSE
    LET input_schema == Get(core, "input_schema", Null)
    IN Then(
        When(~Truthy(Get(core, "description", Null)),
             ValidationResult(file_path, ERROR,
                "Tool '" \o tool_name \o "': Core section missing description")),
        When(~Truthy(input_schema) \/ ~IsDict(input_schema),
             ValidationResult(file_path, ERROR,
                "Tool '" \o tool_name
                \o "': Core section missing valid input_schema")))

_validate_tool_execution(file_path, tool_name, execution) ==
    IF GetRaises(execution) THEN Raised(<<>>)
    ELSE
    LET routing == Get(execution, "routing", EmptyDict)
        security == Get(execution, "security", EmptyDict)
    IN IF GetRaises(routing) THEN Raised(<<>>)
       ELSE Then(
        When(~Truthy(Get(routing, "type", Null)),
             ValidationResult(file_path, ERROR,
                "Tool '" \o tool_name
                \o "': Execution section missing routing type")),
        IF GetRaises(security) THEN Raised(<<>>)
        ELSE When(~Truthy(Get(security, "classification", Null)),
             ValidationResult(file_path, WARNING,
                "Tool '" \o tool_name
                \o "': Execution section missing security classification")))

_validate_tool_discovery(file_path, tool_name, discovery) ==
    IF GetRaises(discovery) THEN Raised(<<>>)
    ELSE
    LET ai_enhanced == Get(discovery, "ai_enhanced", EmptyDict)
    IN IF GetRaises(ai_enhanced) THEN Raised(<<>>)
       ELSE When(~Truthy(Get(ai_enhanced, "description", Null)),
             ValidationResult(file_path, WARNING,
                "Tool '" \o tool_name
                \o "': Discovery section missing AI-enhanced description"))

_validate_tool_monitoring(file_path, tool_name, monitoring) ==
    IF GetRaises(monitoring) THEN Raised(<<>>)
    ELSE
    LET progress_tracking == Get(monitoring, "progress_tracking", EmptyDict)
        cancellation == Get(monitoring, "cancellation", EmptyDict)
    IN IF InRaises(progress_tracking) THEN Raised(<<>>)
       ELSE Then(
        When(~In("enabled", progress_tracking),
             ValidationResult(file_path, WARNING,
                "Tool '" \o tool_name
                \o "': Monitoring section missing progress_tracking.enabled")),
        IF InRaises(cancellation) THEN Raised(<<>>)
        ELSE When(~In("enabled", cancellation),
             ValidationResult(file_path, WARNING,
                "Tool '" \o tool_name
                \o "': Monitoring section missing cancellation.enabled")))

\* [f for f in fields if f not in x]
RECURSIVE NotIn(_, _)
NotIn(fields, x) ==
    IF Len(fields) = 0 THEN <<>>
    ELSE (IF In(Head(fields), x) THEN <<>> ELSE <<Head(fields)>>)
         \o NotIn(Tail(fields), x)

_validate_tool_access(file_path, tool_name, access) ==
    IF InRaises(access) THEN Raised(<<>>)
    ELSE
    LET required_access_fields ==
            <<"hidden", "enabled", "requires_permissions", "user_groups">>
        missing_fields == NotIn(required_access_fields, access)
    IN When(Len(missing_fields) > 0,
            ValidationResult(file_path, WARNING,
                "Tool '" \o tool_name \o "': Access section missing fields: "
                \o Join(", ", missing_fields)))

\* _validate_enhanced_tool going on to the section checks after it has
\* reported the missing sections
_validate_enhanced_tool_no_return(file_path, tool, index) ==
    IF GetRaises(tool) THEN Raised(<<>>)
    ELSE
    LET tool_name == Fmt(Get(tool, "name", Str("tool_" \o ToString(index))))
        missing_sections == MissingKeys(required_enhanced_tool_sections, tool)
    IN Then(When(Len(missing_sections) > 0,
                 ValidationResult(file_path, ERROR,
                    "Tool '" \o tool_name \o "': Missing required sections: "
                    \o Join(", ", missing_sections))),
        Then(_validate_tool_core(file_path, tool_name,
                                 Get(tool, "core", EmptyDict)),
        Then(_validate_tool_execution(file_path, tool_name,
                                 Get(tool, "execution", EmptyDict)),
        Then(_validate_tool_discovery(file_path, tool_name,
                                 Get(tool, "discovery", EmptyDict)),
        Then(_validate_tool_monitoring(file_path, tool_name,
                                 Get(tool, "monitoring", EmptyDict)),
             _validate_tool_access(file_path, tool_name,
                                 Get(tool, "access", EmptyDict)))))))

_validate_enhanced_tool(file_path, tool, index) ==
    IF GetRaises(tool) THEN Raised(<<>>)
    ELSE
    LET tool_name == Fmt(Get(tool, "name", Str("tool_" \o ToString(index))))
        missing_sections == MissingKeys(required_enhanced_tool_sections, tool)
    IN IF Len(missing_sections) > 0
       THEN Returned(<<ValidationResult(file_path, ERROR,
                "Tool '" \o tool_name \o "': Missing required sections: "
                \o Join(", ", missing_sections))>>)
       ELSE
        Then(_validate_tool_core(file_path, tool_name,
                                 Get(tool, "core", EmptyDict)),
        Then(_validate_tool_execution(file_path, tool_name,
                                 Get(tool, "execution", EmptyDict)),
        Then(_validate_tool_discovery(file_path, tool_name,
                                 Get(tool, "discovery", EmptyDict)),
        Then(_validate_tool_monitoring(file_path, tool_name,
                                 Get(tool, "monitoring", EmptyDict)),
             _validate_tool_access(file_path, tool_name,
                                 Get(tool, "access", EmptyDict))))))

\* for i, tool in enumerate(tools): self._validate_enhanced_tool(...)
RECURSIVE ValidateEnhancedTools(_, _, _)
ValidateEnhancedTools(file_path, tools, i) ==
    IF i > Len(tools) THEN Returned(<<>>)
    ELSE Then(_validate_enhanced_tool(file_path, tools[i], i - 1),
              ValidateEnhancedTools(file_path, tools, i + 1))

_validate_enhanced_format(file_path, content) ==
    LET tools == Get(content, "tools", EmptyList)
    IN Then(
        _validate_enhanced_metadata(file_path,
                                    Get(content, "metadata", EmptyDict)),
        IF ~Truthy(tools)
        THEN Returned(<<ValidationResult(file_path, ERROR,
                "Enhanced format must contain at least one tool")>>)
        ELSE IF ~IsList(tools)
        \* a true value that is no list: enumerate() raises on a number,
        \* tool.get raises on the characters of a string or the keys of a dict
        THEN Raised(<<>>)
        ELSE ValidateEnhancedTools(file_path, tools.val, 1))

\* the legacy tool check testing that the keys are there, whatever they hold
_validate_legacy_tool_key_presence(file_path, tool, i) ==
    IF GetRaises(tool) THEN Raised(<<>>)
    ELSE
    LET tool_name == Fmt(Get(tool, "name", Str("tool_" \o ToString(i))))
        routing == Get(tool, "routing", EmptyDict)
    IN Then(
        When(~Has(tool, "name"),
             ValidationResult(file_path, ERROR,
                "Tool " \o ToString(i) \o ": Missing name")),
       Then(
        When(~Has(tool, "description"),
             ValidationResult(file_path, ERROR,
                "Tool '" \o tool_name \o "': Missing description")),
       Then(
        When(~Has(tool, "inputSchema"),
             ValidationResult(file_path, ERROR,
                "Tool '" \o tool_name \o "': Missing inputSchema")),
        IF GetRaises(routing) THEN Raised(<<>>)
        ELSE When(~Has(routing, "type"),
             ValidationResult(file_path, ERROR,
                "Tool '" \o tool_name \o "': Missing routing type")))))

_validate_legacy_tool(file_path, tool, i) ==
    IF GetRaises(tool) THEN Raised(<<>>)
    ELSE
    LET tool_name == Fmt(Get(tool, "name", Str("tool_" \o ToString(i))))
        routing == Get(tool, "routing", EmptyDict)
    IN Then(
        When(~Truthy(Get(tool, "name", Null)),
             ValidationResult(file_path, ERROR,
                "Tool " \o ToString(i) \o ": Missing name")),
       Then(
        When(~Truthy(Get(tool, "description", Null)),
             ValidationResult(file_path, ERROR,
                "Tool '" \o tool_name \o "': Missing description")),
       Then(
        When(~Truthy(Get(tool, "inputSchema", Null)),
             ValidationResult(file_path, ERROR,
                "Tool '" \o tool_name \o "': Missing inputSchema")),
        IF GetRaises(routing) THEN Raised(<<>>)
        ELSE When(~Truthy(Get(routing, "type", Null)),
             ValidationResult(file_path, ERROR,
                "Tool '" \o tool_name \o "': Missing routing type")))))

\* for i, tool in enumerate(tools): the body of the legacy loop
RECURSIVE ValidateLegacyTools(_, _, _)
ValidateLegacyTools(file_path, tools, i) ==
    IF i > Len(tools) THEN Returned(<<>>)
    ELSE Then(_validate_legacy_tool(file_path, tools[i], i - 1),
              ValidateLegacyTools(file_path, tools, i + 1))

_validate_legacy_format(file_path, content) ==
    IF GetRaises(content) THEN Raised(<<>>)
    ELSE
    LET tools == Get(content, "tools", EmptyList)
    IN IF ~Truthy(tools)
       THEN Returned(<<ValidationResult(file_path, ERROR,
                "Legacy format must contain at least one tool")>>)
       ELSE IF ~IsList(tools) THEN Raised(<<>>)
       ELSE ValidateLegacyTools(file_path, tools.val, 1)

-----------------------------------------------------------------------------
(* Files and paths *)

\* The text of a file is modelled by what the tools can observe of it: the
\* migration date of the provenance header that _generate_enhanced_yaml
\* writes (0: the file has no such header) and the document yaml.safe_load
\* builds from it.  InvalidYaml stands for a text that is not YAML.
InvalidYaml == [kind |-> "invalid", val |-> 0]
NoFile == [exists |-> FALSE, hdr |-> 0, doc |-> Null]
File(hdr, document) == [exists |-> TRUE, hdr |-> hdr, doc |-> document]
Directory == [exists |-> TRUE, hdr |-> 0, doc |-> [kind |-> "dir", val |-> 0]]

\* yaml.safe_load(f): the header lines are comments and are dropped
safe_load(file) == file.doc
SafeLoadRaises(file) == file.doc.kind = "invalid"
\* header + yaml.dump(content), written at time t
_generate_enhanced_yaml(content, t) == File(t, content)

\* s.endswith(w)
EndsWith(s, w) ==
    Len(s) >= Len(w) /\ SubSeq(s, Len(s) - Len(w) + 1, Len(s)) = w

\* position of the last occurrence of the character c in s, 0 if none
LastIndexOf(s, c) ==
    LET hits == {i \in 1..Len(s) : Char(s, i) = c}
    IN IF hits = {} THEN 0 ELSE CHOOSE i \in hits : \A j \in hits : j <= i

\* Path(p).name, Path(p).stem, Path(p).suffix
PathName(p) == SubSeq(p, LastIndexOf(p, "/") + 1, Len(p))
PathSuffix(p) ==
    LET name == PathName(p)
        dot == LastIndexOf(name, ".")
    IN IF dot <= 1 THEN "" ELSE SubSeq(name, dot, Len(name))
PathStem(p) ==
    LET name == PathName(p)
    IN SubSeq(name, 1, Len(name) - Len(PathSuffix(p)))
\* Path(p).parent
PathParent(p) == SubSeq(p, 1, LastIndexOf(p, "/") - 1)
\* input_path.with_suffix(f"{input_path.suffix}.backup")
BackupPath(p) ==
    SubSeq(p, 1, Len(p) - Len(PathSuffix(p))) \o PathSuffix(p) \o ".backup"
\* an output path that drops the relative path: every file of a run is
\* written to the same output file
OutputFile_flat(yaml_file, input_dir, output_dir) ==
    output_dir \o "/file_operations.yaml"

\* output_path / yaml_file.relative_to(input_path)
OutputFile(yaml_file, input_dir, output_dir) ==
    output_dir \o SubSeq(yaml_file, Len(input_dir) + 1, Len(yaml_file))

-----------------------------------------------------------------------------
(* YamlMigrationValidator: files, directories and the verdict *)

\* validate_file without the except clauses of lines 115-128: a parse
\* failure leaves validate_file as an exception
validate_file_uncaught(fsys, file_path) ==
    IF ~fsys[file_path].exists
    THEN Returned(<<ValidationResult(file_path, ERROR,
                        "File does not exist: " \o file_path)>>)
    ELSE IF SafeLoadRaises(fsys[file_path])
    THEN Raised(<<>>)
    ELSE
    LET content == safe_load(fsys[file_path])
        is_enhanced == _is_enhanced_format(content)
        format_type == IF is_enhanced THEN "Enhanced MCP 2025-06-18"
                       ELSE "Legacy"
    IN Then(
        Returned(<<ValidationResult(file_path, INFO,
                        "Detected format: " \o format_type)>>),
        IF is_enhanced
        THEN _validate_enhanced_format(file_path, content)
        ELSE _validate_legacy_format(file_path, content))

validate_file(fsys, file_path) ==
    IF ~fsys[file_path].exists
    THEN Returned(<<ValidationResult(file_path, ERROR,
                        "File does not exist: " \o file_path)>>)
    ELSE IF SafeLoadRaises(fsys[file_path])
    THEN Returned(<<ValidationResult(file_path, ERROR,
                        "Invalid YAML syntax")>>)
    ELSE
    LET content == safe_load(fsys[file_path])
        is_enhanced == _is_enhanced_format(content)
        format_type == IF is_enhanced THEN "Enhanced MCP 2025-06-18"
                       ELSE "Legacy"
    IN Then(
        Returned(<<ValidationResult(file_path, INFO,
                        "Detected format: " \o format_type)>>),
        IF is_enhanced
        THEN _validate_enhanced_format(file_path, content)
        ELSE _validate_legacy_format(file_path, content))

\* [r for r in results if r.level == level]
OfLevel(res, level) == SelectSeq(res, LAMBDA r : r.level = level)

\* print_results failing a run that has warnings
print_results_warnings_fail(self) ==
    LET errors == OfLevel(self.results, ERROR)
        warnings == OfLevel(self.results, WARNING)
    IN IF Len(errors) > 0 \/ Len(warnings) > 0
       THEN [status |-> "VALIDATION FAILED", success |-> FALSE]
       ELSE [status |-> "VALIDATION PASSED", success |-> TRUE]

\* print_results doing what the help of --strict says: warnings become errors
print_results_strict(self) ==
    LET errors == OfLevel(self.results, ERROR)
        warnings == OfLevel(self.results, WARNING)
    IN IF Len(errors) > 0 \/ (self.strict_mode /\ Len(warnings) > 0)
       THEN [status |-> "VALIDATION FAILED", success |-> FALSE]
       ELSE IF Len(warnings) > 0
       THEN [status |-> "VALIDATION PASSED WITH WARNINGS", success |-> TRUE]
       ELSE [status |-> "VALIDATION PASSED", success |-> TRUE]

\* print_results: the final status line and the returned boolean; self is
\* the validator, [strict_mode, results]
print_results(self) ==
    LET errors == OfLevel(self.results, ERROR)
        warnings == OfLevel(self.results, WARNING)
    IN IF Len(errors) > 0
       THEN [status |-> "VALIDATION FAILED", success |-> FALSE]
       ELSE IF Len(warnings) > 0
       THEN [status |-> "VALIDATION PASSED WITH WARNINGS", success |-> TRUE]
       ELSE [status |-> "VALIDATION PASSED", success |-> TRUE]

-----------------------------------------------------------------------------
(* migrate_yaml_to_enhanced.py: YamlMigrationTool, the pure part *)

\* needle in str(x): the repr of a document shows every key and every
\* string value; the separators it adds hold quotes, so a needle without
\* quotes lies inside one key or one string
RECURSIVE InRepr(_, _)
InRepr(needle, x) ==
    CASE x.kind = "str" -> Contains(x.val, needle)
      [] x.kind = "list" ->
            \E i \in 1..Len(x.val) : InRepr(needle, x.val[i])
      [] x.kind = "dict" ->
            \E k \in DOMAIN x.val :
                Contains(k, needle) \/ InRepr(needle, x.val[k])
      [] OTHER -> FALSE

\* the bare except of _is_already_enhanced turns every exception (missing
\* file, YAML error, .get on a non-mapping, `in` on None) into False
_is_already_enhanced(fsys, yaml_file) ==
    IF ~fsys[yaml_file].exists \/ SafeLoadRaises(fsys[yaml_file]) THEN FALSE
    ELSE
    LET content == safe_load(fsys[yaml_file])
        metadata == Get(content, "metadata", EmptyDict)
    IN IF GetRaises(content) \/ InRaises(metadata) THEN FALSE
       ELSE \/ In("classification", metadata)
            \/ In("discovery_metadata", metadata)
            \/ In("mcp_capabilities", metadata)
            \/ InRepr("MCP 2025-06-18", content)

\* len(x) and when it raises TypeError
PyLen(x) ==
    CASE x.kind = "str" -> Len(x.val)
      [] x.kind = "list" -> Len(x.val)
      [] x.kind = "dict" -> Cardinality(DOMAIN x.val)
      [] OTHER -> 0
LenRaises(x) == x.kind \in {"null", "int", "bool"}

\* first value of an ordered (trigger, value) table whose trigger occurs in s
RECURSIVE FirstMatch(_, _, _)
FirstMatch(table, s, default) ==
    IF Len(table) = 0 THEN default
    ELSE IF Contains(s, Head(table)[1]) THEN Head(table)[2]
    ELSE FirstMatch(Tail(table), s, default)

domain_mapping ==
    << <<"file", "filesystem">>, <<"http", "networking">>,
       <<"database", "data_storage">>, <<"system", "system_administration">>,
       <<"monitoring", "observability">>, <<"git", "version_control">>,
       <<"ai", "artificial_intelligence">>,
       <<"smart", "artificial_intelligence">> >>

use_case_mapping ==
    << <<"file", <<"file_management", "data_processing">> >>,
       <<"http", <<"api_integration", "web_services">> >>,
       <<"database", <<"data_storage", "data_retrieval">> >>,
       <<"system", <<"system_administration", "monitoring">> >>,
       <<"monitoring", <<"health_monitoring", "performance_analysis">> >>,
       <<"git", <<"version_control", "code_management">> >>,
       <<"ai", <<"intelligent_processing", "automation">> >>,
       <<"smart", <<"intelligent_routing", "automation">> >> >>

\* the security buckets tested against the identifier as it is written
SecurityLevelOf_no_lower(file_stem) ==
    IF AnyIn(<<"admin", "system", "root", "security">>, file_stem)
    THEN "privileged"
    ELSE IF AnyIn(<<"file", "database", "network">>, file_stem)
    THEN "restricted"
    ELSE IF AnyIn(<<"delete", "remove", "execute">>, file_stem)
    THEN "dangerous"
    ELSE "safe"

\* the security buckets with the delete bucket tested before the file bucket
SecurityLevelOf_delete_first(file_stem) ==
    IF AnyIn(<<"admin", "system", "root", "security">>, Lower(file_stem))
    THEN "privileged"
    ELSE IF AnyIn(<<"delete", "remove", "execute">>, Lower(file_stem))
    THEN "dangerous"
    ELSE IF AnyIn(<<"file", "database", "network">>, Lower(file_stem))
    THEN "restricted"
    ELSE "safe"

\* lines 231-239 of _classify_capability
SecurityLevelOf(file_stem) ==
    IF AnyIn(<<"admin", "system", "root", "security">>, Lower(file_stem))
    THEN "privileged"
    ELSE IF AnyIn(<<"file", "database", "network">>, Lower(file_stem))
    THEN "restricted"
    ELSE IF AnyIn(<<"delete", "remove", "execute">>, Lower(file_stem))
    THEN "dangerous"
    ELSE "safe"

\* the complexity thresholds with the bounds included
ComplexityLevelOf_inclusive(metadata) ==
    LET tools_count == PyLen(Get(metadata, "tools", EmptyList))
    IN IF tools_count >= 10 THEN "very_complex"
       ELSE IF tools_count >= 5 THEN "complex"
       ELSE IF tools_count >= 2 THEN "moderate"
       ELSE "simple"

\* lines 241-250 of _classify_capability
ComplexityLevelOf(metadata) ==
    LET tools_count == PyLen(Get(metadata, "tools", EmptyList))
    IN IF tools_count > 10 THEN "very_complex"
       ELSE IF tools_count > 5 THEN "complex"
       ELSE IF tools_count > 2 THEN "moderate"
       ELSE "simple"

\* returns <<security_level, complexity_level, domain, use_cases>>
_classify_capability(file_stem, metadata) ==
    << SecurityLevelOf(file_stem),
       ComplexityLevelOf(metadata),
       FirstMatch(domain_mapping, Lower(file_stem), "general"),
       FirstMatch(use_case_mapping, Lower(file_stem), <<"general_purpose">>) >>
ClassifyRaises(metadata) ==
    GetRaises(metadata) \/ LenRaises(Get(metadata, "tools", EmptyList))

name_keywords ==
    << <<"file", <<"file", "read", "write", "filesystem">> >>,
       <<"http", <<"http", "request", "api", "web">> >>,
       <<"database", <<"database", "query", "data", "sql">> >>,
       <<"system", <<"system", "process", "monitor", "health">> >>,
       <<"monitoring", <<"monitor", "check", "health", "status">> >>,
       <<"git", <<"git", "version", "commit", "repository">> >>,
       <<"smart", <<"smart", "intelligent", "ai", "discovery">> >> >>

\* [Str(s) for s in seq]
StrNodes(seq) == [i \in 1..Len(seq) |-> Str(seq[i])]

\* the elements of a finite set of strings, as a sequence
RECURSIVE SetToSeq(_)
SetToSeq(S) ==
    IF S = {} THEN <<>>
    ELSE LET x == CHOOSE y \in S : TRUE
         IN <<x>> \o SetToSeq(S \ {x})

\* the elements that iterating over x yields (list.extend(x))
Elements(x) ==
    CASE x.kind = "list" -> x.val
      [] x.kind = "str" -> [i \in 1..Len(x.val) |-> Str(Char(x.val, i))]
      [] x.kind = "dict" -> StrNodes(SetToSeq(DOMAIN x.val))
      [] OTHER -> <<>>

\* list(set(seq)): the order Python gives the result is arbitrary and no
\* rule reads it; the model keeps each element at its first place
RECURSIVE Dedup(_)
Dedup(seq) ==
    IF Len(seq) = 0 THEN <<>>
    ELSE LET front == Dedup(SubSeq(seq, 1, Len(seq) - 1))
             last == seq[Len(seq)]
         IN IF \E i \in 1..Len(front) : front[i] = last
            THEN front ELSE Append(front, last)

_generate_keywords(file_stem, metadata) ==
    LET keywords ==
            <<Str(Replace(file_stem, "_", " "))>>
            \o StrNodes(FirstMatch(name_keywords, Lower(file_stem), <<>>))
            \o (IF Has(metadata, "tags")
                THEN Elements(metadata.val["tags"]) ELSE <<>>)
    IN List(Dedup(keywords))
\* extend() needs an iterable, set() needs hashable elements
KeywordsRaise(metadata) ==
    /\ Has(metadata, "tags")
    /\ LET tags == metadata.val["tags"]
       IN \/ tags.kind \in {"null", "int", "bool"}
          \/ /\ IsList(tags)
             /\ \E i \in 1..Len(tags.val) :
                    tags.val[i].kind \in {"list", "dict"}

_create_enhanced_metadata(legacy_metadata, file_stem) ==
    LET name == Get(legacy_metadata, "name",
                    Str("Enhanced " \o Title(Replace(file_stem, "_", " "))))
        description == Get(legacy_metadata, "description",
                    Str("Enhanced " \o file_stem
                        \o " with MCP 2025-06-18 compliance"))
        version == "3.0.0"
        author == Get(legacy_metadata, "author",
                      Str("MCP 2025 Enhanced Team"))
        c == _classify_capability(file_stem, legacy_metadata)
    IN Dict([
        name |-> Str("Enhanced " \o Fmt(name)),
        description |-> Str(Fmt(description)
            \o " - MCP 2025-06-18 compliant with AI enhancement"),
        version |-> Str(version),
        author |-> author,
        classification |-> Dict([
            security_level |-> Str(c[1]),
            complexity_level |-> Str(c[2]),
            domain |-> Str(c[3]),
            use_cases |-> List(StrNodes(c[4]))]),
        discovery_metadata |-> Dict([
            primary_keywords |-> _generate_keywords(file_stem, legacy_metadata),
            semantic_embeddings |-> Bool(TRUE),
            llm_enhanced |-> Bool(TRUE),
            workflow_enabled |-> Bool(TRUE)]),
        mcp_capabilities |-> Dict([
            version |-> Str("2025-06-18"),
            supports_cancellation |-> Bool(TRUE),
            supports_progress |-> Bool(TRUE),
            supports_sampling |-> Bool(FALSE),
            supports_validation |-> Bool(TRUE),
            supports_elicitation |-> Bool(FALSE)])])
CreateEnhancedMetadataRaises(legacy_metadata) ==
    \/ ClassifyRaises(legacy_metadata)
    \/ KeywordsRaise(legacy_metadata)

-----------------------------------------------------------------------------
(* YamlMigrationTool: one legacy tool to one enhanced tool *)

\* self.tool_security_mapping.get(tool_name, self.tool_security_mapping['default'])
tool_security_mapping(tool_name) ==
    CASE tool_name = "read_file" -> "restricted"
      [] tool_name = "write_file" -> "privileged"
      [] tool_name = "delete_file" -> "dangerous"
      [] tool_name = "list_directory" -> "safe"
      [] tool_name = "execute_command" -> "dangerous"
      [] tool_name = "system_info" -> "safe"
      [] tool_name = "process_list" -> "restricted"
      [] tool_name = "http_request" -> "restricted"
      [] tool_name = "ping" -> "safe"
      [] tool_name = "network_scan" -> "privileged"
      [] tool_name = "database_query" -> "privileged"
      [] tool_name = "database_write" -> "dangerous"
      [] OTHER -> "restricted"

\* the validation hints of lines 366-377 for one property
EnhanceProperty(prop_name, prop_config) ==
    IF ~IsDict(prop_config) THEN prop_config
    ELSE IF Contains(Lower(prop_name), "path")
    THEN Put(prop_config, "validation", Dict([
            path_traversal_protection |-> Bool(TRUE),
            security_scan |-> Bool(TRUE)]))
    ELSE IF Contains(Lower(prop_name), "content")
    THEN Put(prop_config, "validation", Dict([
            max_size_mb |-> Num(10),
            content_filter |-> Bool(TRUE)]))
    ELSE prop_config

_enhance_input_schema(legacy_schema) ==
    LET withProps ==
            IF Has(legacy_schema, "properties")
            THEN LET props == legacy_schema.val["properties"]
                 IN Put(legacy_schema, "properties",
                        Dict([k \in DOMAIN props.val |->
                                EnhanceProperty(k, props.val[k])]))
            ELSE legacy_schema
    IN Put(withProps, "additionalProperties", Bool(FALSE))
\* .copy() and the item assignment need a dict, .items() a dict of properties
EnhanceInputSchemaRaises(legacy_schema) ==
    \/ ~IsDict(legacy_schema)
    \/ Has(legacy_schema, "properties")
       /\ ~IsDict(legacy_schema.val["properties"])

_enhance_routing(legacy_routing) ==
    LET routing_type == Get(legacy_routing, "type", Str("subprocess"))
        config == Get(legacy_routing, "config", EmptyDict)
        primary == Dict([
            command |-> Get(config, "command", Str("echo")),
            args |-> Get(config, "args", EmptyList),
            timeout_seconds |-> Get(config, "timeout", Num(30))])
    IN IF routing_type = Str("subprocess")
       THEN Dict([
            type |-> Str("enhanced_" \o Fmt(routing_type)),
            primary |-> primary,
            fallback |-> Dict([
                command |-> Str("echo"),
                args |-> List(<<Str("\"Operation completed with fallback\"")>>),
                timeout_seconds |-> Num(10)])])
       ELSE Dict([
            type |-> Str("enhanced_" \o Fmt(routing_type)),
            primary |-> primary])
EnhanceRoutingRaises(legacy_routing) ==
    \/ GetRaises(legacy_routing)
    \/ GetRaises(Get(legacy_routing, "config", EmptyDict))

Sandbox(max_memory_mb, max_execution_seconds, extra) ==
    Dict(extra @@ [
        resources |-> Dict([
            max_memory_mb |-> Num(max_memory_mb),
            max_cpu_percent |-> Num(30),
            max_execution_seconds |-> Num(max_execution_seconds)]),
        environment |-> Dict([readonly_system |-> Bool(TRUE)])])

\* the base configuration alone, without the classification-specific part
_create_security_config_base(classification) ==
    Dict([
        classification |-> Str(classification),
        sandbox |-> Sandbox(256, 60, <<>>)])

_create_security_config(classification) ==
    IF classification = "dangerous"
    THEN Dict([
        classification |-> Str(classification),
        sandbox |-> Sandbox(128, 30, <<>>),
        requires_approval |-> Bool(TRUE),
        approval_workflow |-> Str("security_review")])
    ELSE IF classification = "privileged"
    THEN Dict([
        classification |-> Str(classification),
        sandbox |-> Sandbox(512, 60, <<>>),
        requires_approval |-> Bool(TRUE)])
    ELSE IF classification = "restricted"
    THEN Dict([
        classification |-> Str(classification),
        sandbox |-> Sandbox(256, 60, [
            filesystem |-> Dict([denied_patterns |->
                List(<<Str("/etc/*"), Str("/root/*"), Str("*.private")>>)]),
            network |-> Dict([allowed |-> Bool(FALSE)])])])
    ELSE Dict([
        classification |-> Str(classification),
        sandbox |-> Sandbox(256, 60, <<>>)])

complex_tools == <<"database", "process", "analyze", "transform">>

_create_performance_config(tool_name) ==
    LET is_complex == AnyIn(complex_tools, Lower(tool_name))
    IN Dict([
        estimated_duration |-> Dict([
            simple_operation |-> Num(IF ~is_complex THEN 5 ELSE 15),
            complex_operation |-> Num(IF ~is_complex THEN 30 ELSE 120)]),
        complexity |-> Str(IF is_complex THEN "complex" ELSE "moderate"),
        supports_cancellation |-> Bool(TRUE),
        supports_progress |-> Bool(is_complex),
        cache_results |-> Bool(StartsWith(tool_name, "read")
                               \/ StartsWith(tool_name, "get")),
        cache_ttl_seconds |-> Num(IF StartsWith(tool_name, "read")
                                  THEN 300 ELSE 0)])

intent_mapping ==
    << <<"read", "data_retrieval">>, <<"write", "data_modification">>,
       <<"delete", "data_removal">>, <<"list", "data_enumeration">>,
       <<"create", "data_creation">>, <<"update", "data_modification">>,
       <<"execute", "command_execution">>, <<"process", "data_processing">>,
       <<"analyze", "data_analysis">>, <<"monitor", "system_monitoring">> >>

_determine_intent(tool_name) ==
    FirstMatch(intent_mapping, Lower(tool_name), "general_operation")

operation_keywords ==
    << <<"read", <<"read", "retrieve", "get", "fetch">> >>,
       <<"write", <<"write", "save", "store", "put">> >>,
       <<"delete", <<"delete", "remove", "unlink">> >>,
       <<"list", <<"list", "enumerate", "scan">> >>,
       <<"create", <<"create", "make", "generate">> >>,
       <<"update", <<"update", "modify", "change">> >>,
       <<"execute", <<"execute", "run", "invoke">> >>,
       <<"process", <<"process", "transform", "convert">> >>,
       <<"analyze", <<"analyze", "examine", "inspect">> >>,
       <<"monitor", <<"monitor", "check", "watch">> >> >>

_determine_operations(tool_name) ==
    FirstMatch(operation_keywords, Lower(tool_name), <<"operate">>)

_create_ai_discovery(tool_name, description) ==
    Dict([
        description |-> Str("AI-enhanced " \o description
            \o " with intelligent processing and security validation"),
        usage_patterns |-> List(<<
            Str("use " \o tool_name \o " to {action}"),
            Str("help me {accomplish_task} with " \o tool_name),
            Str(tool_name \o " for {specific_purpose}")>>),
        semantic_context |-> Dict([
            primary_intent |-> Str(_determine_intent(tool_name)),
            operations |-> List(StrNodes(_determine_operations(tool_name))),
            data_types |-> List(<<Str("structured"), Str("unstructured")>>)]),
        workflow_integration |-> Dict([
            typically_follows |-> EmptyList,
            typically_precedes |-> EmptyList,
            chain_compatibility |-> List(<<Str("general_workflow")>>)])])

\* the entry of lines 491-505 for one parameter
ParameterIntel(param_name, param_config) ==
    LET base == [
            smart_default |-> Get(param_config, "default", Null),
            validation |-> List(<<Dict([
                rule |-> Str("required_validation"),
                message |-> Str(param_name
                                \o " must be provided and valid")])>>)]
    IN IF Contains(Lower(param_name), "path")
       THEN Dict([smart_suggestions |-> List(<<Dict([
                    pattern |-> Str("*"),
                    description |-> Str("File system paths"),
                    examples |-> List(<<Str("/path/to/file"),
                                        Str("./relative/path")>>)])>>)]
                 @@ base)
       ELSE Dict(base)

_create_parameter_intelligence(input_schema) ==
    LET properties == Get(input_schema, "properties", EmptyDict)
    IN Dict([k \in DOMAIN properties.val |->
                ParameterIntel(k, properties.val[k])])
\* .items() needs a dict of properties, param_config.get a dict
ParameterIntelligenceRaises(input_schema) ==
    LET properties == Get(input_schema, "properties", EmptyDict)
    IN \/ GetRaises(input_schema)
       \/ ~IsDict(properties)
       \/ \E k \in DOMAIN properties.val : GetRaises(properties.val[k])

_create_monitoring_config_empty(tool_name) == EmptyDict

_create_monitoring_config(tool_name) ==
    LET is_complex == AnyIn(complex_tools, Lower(tool_name))
        sub_operations == List(<<
            Dict([id |-> Str("initialization"),
                  name |-> Str("Initializing operation"),
                  estimated_percentage |-> Num(20)]),
            Dict([id |-> Str("processing"),
                  name |-> Str("Processing data"),
                  estimated_percentage |-> Num(70)]),
            Dict([id |-> Str("finalization"),
                  name |-> Str("Completing operation"),
                  estimated_percentage |-> Num(10)])>>)
    IN Dict([
        progress_tracking |->
            IF is_complex
            THEN Dict([enabled |-> Bool(is_complex),
                       granularity |-> Str("detailed"),
                       sub_operations |-> sub_operations])
            ELSE Dict([enabled |-> Bool(is_complex),
                       granularity |-> Str("basic")]),
        cancellation |-> Dict([
            enabled |-> Bool(TRUE),
            graceful_timeout_seconds |-> Num(IF is_complex THEN 30 ELSE 10),
            cleanup_required |-> Bool(is_complex)]),
        metrics |-> Dict([
            track_execution_time |-> Bool(TRUE),
            track_success_rate |-> Bool(TRUE),
            custom_metrics |->
                List(<<Str(tool_name \o "_operations_completed")>>)])])

_determine_permissions_flat(classification) ==
    LET base_permissions == <<"tool:execute">>
    IN CASE classification = "safe" -> base_permissions
         [] classification = "restricted" ->
                base_permissions \o <<"security:validated">>
         [] classification = "privileged" ->
                base_permissions \o <<"admin:elevated">>
         [] classification = "dangerous" ->
                base_permissions \o <<"security:validated", "admin:elevated",
                                      "approval:required">>
         [] OTHER -> base_permissions

_determine_permissions(classification) ==
    LET base_permissions == <<"tool:execute">>
    IN CASE classification = "safe" -> base_permissions
         [] classification = "restricted" ->
                base_permissions \o <<"security:validated">>
         [] classification = "privileged" ->
                base_permissions \o <<"security:validated", "admin:elevated">>
         [] classification = "dangerous" ->
                base_permissions \o <<"security:validated", "admin:elevated",
                                      "approval:required">>
         [] OTHER -> base_permissions

_migrate_tool_to_enhanced(legacy_tool) ==
    LET name_node == Get(legacy_tool, "name", Str("unknown_tool"))
        tool_name == name_node.val
        description == Fmt(Get(legacy_tool, "description",
                               Str("Enhanced " \o Fmt(name_node))))
        input_schema == Get(legacy_tool, "inputSchema", EmptyDict)
        routing == Get(legacy_tool, "routing", EmptyDict)
        hidden == Get(legacy_tool, "hidden", Bool(TRUE))
        security_classification == tool_security_mapping(tool_name)
    IN Dict([
        name |-> Str("enhanced_" \o tool_name),
        core |-> Dict([
            description |-> Str("AI-enhanced " \o description
                                \o " with MCP 2025-06-18 compliance"),
            input_schema |-> _enhance_input_schema(input_schema)]),
        execution |-> Dict([
            routing |-> _enhance_routing(routing),
            security |-> _create_security_config(security_classification),
            performance |-> _create_performance_config(tool_name)]),
        discovery |-> Dict([
            ai_enhanced |-> _create_ai_discovery(tool_name, description),
            parameter_intelligence |->
                _create_parameter_intelligence(input_schema)]),
        monitoring |-> _create_monitoring_config(tool_name),
        access |-> Dict([
            hidden |-> hidden,
            enabled |-> Bool(TRUE),
            requires_permissions |->
                List(StrNodes(_determine_permissions(security_classification))),
            user_groups |-> List(<<Str(IF security_classification = "safe"
                                       THEN "all" ELSE "administrators")>>),
            approval_required |->
                Bool(security_classification \in {"dangerous", "privileged"})])])
\* tool.get needs a dict; the mapping lookup a hashable name; tool_name.lower()
\* and tool_name.startswith() a string
MigrateToolRaises(legacy_tool) ==
    \/ GetRaises(legacy_tool)
    \/ ~IsStr(Get(legacy_tool, "name", Str("unknown_tool")))
    \/ EnhanceInputSchemaRaises(Get(legacy_tool, "inputSchema", EmptyDict))
    \/ EnhanceRoutingRaises(Get(legacy_tool, "routing", EmptyDict))
    \/ ParameterIntelligenceRaises(Get(legacy_tool, "inputSchema", EmptyDict))

\* the elements a for loop over x visits, and when the loop raises TypeError
Iterate(x) == Elements(x)
IterateRaises(x) == x.kind \in {"null", "int", "bool"}

_migrate_yaml_content(legacy_content, file_stem) ==
    LET legacy_metadata == Get(legacy_content, "metadata", EmptyDict)
        legacy_tools == Iterate(Get(legacy_content, "tools", EmptyList))
    IN Dict([
        metadata |-> _create_enhanced_metadata(legacy_metadata, file_stem),
        tools |-> List([i \in 1..Len(legacy_tools) |->
                            _migrate_tool_to_enhanced(legacy_tools[i])])])
MigrateYamlContentRaises(legacy_content) ==
    \/ GetRaises(legacy_content)
    \/ LET legacy_metadata == Get(legacy_content, "metadata", EmptyDict)
           legacy_tools == Get(legacy_content, "tools", EmptyList)
       IN \/ CreateEnhancedMetadataRaises(legacy_metadata)
          \/ IterateRaises(legacy_tools)
          \/ \E i \in 1..Len(Iterate(legacy_tools)) :
                MigrateToolRaises(Iterate(legacy_tools)[i])

-----------------------------------------------------------------------------
(* YamlMigrationTool: files *)

\* migrate_file with the increments of lines 144-145 done before the file
\* is read, so that a failing file is counted as well
migrate_file_counts_first(fsys, stats, t, backup, input_file, output_file) ==
    LET output_path == IF output_file # "" THEN output_file ELSE input_file
        backed == IF backup /\ output_file = ""
                  THEN [fsys EXCEPT ![BackupPath(input_file)] = fsys[input_file]]
                  ELSE fsys
        legacy_content == safe_load(fsys[input_file])
        enhanced_content ==
            _migrate_yaml_content(legacy_content, PathStem(input_file))
        counted == [stats EXCEPT !.files_processed = @ + 1,
                                 !.files_migrated = @ + 1]
    IN IF ~fsys[input_file].exists
       THEN [fs |-> fsys, stats |-> counted, now |-> t, raised |-> TRUE]
       ELSE IF SafeLoadRaises(fsys[input_file])
               \/ MigrateYamlContentRaises(legacy_content)
       THEN [fs |-> backed, stats |-> counted, now |-> t, raised |-> TRUE]
       ELSE [fs |-> [backed EXCEPT ![output_path] =
                        _generate_enhanced_yaml(enhanced_content, t + 1)],
             stats |-> counted,
             now |-> t + 1,
             raised |-> FALSE]

\* migrate_file without the files_migrated increment of line 145
migrate_file_uncounted(fsys, stats, t, backup, input_file, output_file) ==
    LET output_path == IF output_file # "" THEN output_file ELSE input_file
        backed == IF backup /\ output_file = ""
                  THEN [fsys EXCEPT ![BackupPath(input_file)] = fsys[input_file]]
                  ELSE fsys
        legacy_content == safe_load(fsys[input_file])
        enhanced_content ==
            _migrate_yaml_content(legacy_content, PathStem(input_file))
    IN IF ~fsys[input_file].exists
       THEN [fs |-> fsys, stats |-> stats, now |-> t, raised |-> TRUE]
       ELSE IF SafeLoadRaises(fsys[input_file])
               \/ MigrateYamlContentRaises(legacy_content)
       THEN [fs |-> backed, stats |-> stats, now |-> t, raised |-> TRUE]
       ELSE [fs |-> [backed EXCEPT ![output_path] =
                        _generate_enhanced_yaml(enhanced_content, t + 1)],
             stats |-> [stats EXCEPT !.files_processed = @ + 1],
             now |-> t + 1,
             raised |-> FALSE]

\* The effect of migrate_file(input_file, output_file) on the file system,
\* the statistics and the clock; output_file = "" stands for None.
\* raised: the call ended by an exception (missing input, YAML error, or an
\* error while transforming), after the backup was taken.
migrate_file(fsys, stats, t, backup, input_file, output_file) ==
    LET output_path == IF output_file # "" THEN output_file ELSE input_file
        backed == IF backup /\ output_file = ""
                  THEN [fsys EXCEPT ![BackupPath(input_file)] = fsys[input_file]]
                  ELSE fsys
        legacy_content == safe_load(fsys[input_file])
        enhanced_content ==
            _migrate_yaml_content(legacy_content, PathStem(input_file))
    IN IF ~fsys[input_file].exists
       THEN [fs |-> fsys, stats |-> stats, now |-> t, raised |-> TRUE]
       ELSE IF SafeLoadRaises(fsys[input_file])
               \/ MigrateYamlContentRaises(legacy_content)
       THEN [fs |-> backed, stats |-> stats, now |-> t, raised |-> TRUE]
       ELSE [fs |-> [backed EXCEPT ![output_path] =
                        _generate_enhanced_yaml(enhanced_content, t + 1)],
             stats |-> [stats EXCEPT !.files_processed = @ + 1,
                                     !.files_migrated = @ + 1],
             now |-> t + 1,
             raised |-> FALSE]

\* list(input_path.glob("**/*.yaml")) + list(input_path.glob("**/*.yml")),
\* each pattern in the order of the directory listing
Glob(fsys, listing, input_dir) ==
    LET inDir(p) == fsys[p].exists /\ StartsWith(p, input_dir \o "/")
    IN SelectSeq(listing, LAMBDA p : inDir(p) /\ EndsWith(p, ".yaml"))
       \o SelectSeq(listing, LAMBDA p : inDir(p) /\ EndsWith(p, ".yml"))

\* the loop body counting a skipped file as processed
migrate_directory_body_skip_counted(fsys, stats, t, backup, yaml_file, input_dir, output_dir) ==
    IF _is_already_enhanced(fsys, yaml_file)
    THEN [fs |-> fsys, now |-> t, raised |-> FALSE, outcome |-> "skipped",
          stats |-> [stats EXCEPT !.files_skipped = @ + 1,
                                  !.files_processed = @ + 1]]
    ELSE
    LET output_path == IF output_dir # "" THEN output_dir ELSE input_dir
        output_file == OutputFile(yaml_file, input_dir, output_path)
        made == [fsys EXCEPT ![PathParent(output_file)] = Directory]
        r == migrate_file(made, stats, t, backup, yaml_file, output_file)
    IN IF r.raised
       THEN [fs |-> r.fs, now |-> r.now, raised |-> FALSE, outcome |-> "failed",
             stats |-> [r.stats EXCEPT !.errors =
                            Append(@, "Failed to migrate " \o yaml_file)]]
       ELSE [fs |-> r.fs, now |-> r.now, raised |-> FALSE,
             outcome |-> "migrated", stats |-> r.stats]

\* the loop body without its try/except: the exception leaves the loop
migrate_directory_body_uncaught(fsys, stats, t, backup, yaml_file, input_dir, output_dir) ==
    IF _is_already_enhanced(fsys, yaml_file)
    THEN [fs |-> fsys, now |-> t, raised |-> FALSE, outcome |-> "skipped",
          stats |-> [stats EXCEPT !.files_skipped = @ + 1]]
    ELSE
    LET output_path == IF output_dir # "" THEN output_dir ELSE input_dir
        output_file == OutputFile(yaml_file, input_dir, output_path)
        made == [fsys EXCEPT ![PathParent(output_file)] = Directory]
        r == migrate_file(made, stats, t, backup, yaml_file, output_file)
    IN [fs |-> r.fs, now |-> r.now, raised |-> r.raised,
        outcome |-> IF r.raised THEN "failed" ELSE "migrated",
        stats |-> r.stats]

\* One pass of the loop body of migrate_directory (lines 93-113) for
\* yaml_file, the try/except included.  outcome names the line it printed.
migrate_directory_body(fsys, stats, t, backup, yaml_file, input_dir, output_dir) ==
    IF _is_already_enhanced(fsys, yaml_file)
    THEN [fs |-> fsys, now |-> t, raised |-> FALSE, outcome |-> "skipped",
          stats |-> [stats EXCEPT !.files_skipped = @ + 1]]
    ELSE
    LET output_path == IF output_dir # "" THEN output_dir ELSE input_dir
        output_file == OutputFile(yaml_file, input_dir, output_path)
        \* output_file.parent.mkdir(parents=True, exist_ok=True)
        made == [fsys EXCEPT ![PathParent(output_file)] = Directory]
        r == migrate_file(made, stats, t, backup, yaml_file, output_file)
    IN IF r.raised
       THEN [fs |-> r.fs, now |-> r.now, raised |-> FALSE, outcome |-> "failed",
             stats |-> [r.stats EXCEPT !.errors =
                            Append(@, "Failed to migrate " \o yaml_file)]]
       ELSE [fs |-> r.fs, now |-> r.now, raised |-> FALSE,
             outcome |-> "migrated", stats |-> r.stats]

-----------------------------------------------------------------------------
(* Bounds and the input universes *)

MaxFiles == 2       \* files in the input directory
MaxCalls == 2       \* top-level operations on one tool
MaxTools == 2       \* tools in one manifest of the manifest run
MaxWords == 2       \* words in one file identifier of the classifier run
MaxMetaTools == 11  \* entries of metadata.tools in the classifier run

InputDir == "caps"
OutputDir == "enhanced"
MissingDir == "missing"
\* paths relative to the input directory; the second file is in a
\* sub-directory
InputFileNames ==
    <<"file_operations.yaml", "ops/admin_tools.yml", "delete_file.yaml",
      "http_client.yml">>
\* the directory listing, in enumeration order
Listing == [i \in 1..MaxFiles |-> InputDir \o "/" \o InputFileNames[i]]
InputFiles == {Listing[i] : i \in 1..MaxFiles}
Paths ==
    {InputDir, OutputDir, MissingDir} \cup InputFiles
    \cup {BackupPath(p) : p \in InputFiles}
    \cup {OutputFile(p, InputDir, OutputDir) : p \in InputFiles}
    \cup {PathParent(p) : p \in InputFiles}
    \cup {PathParent(OutputFile(p, InputDir, OutputDir)) : p \in InputFiles}

\* an input schema with one string property
PathSchema ==
    Dict([type |-> Str("object"),
          properties |-> Dict([path |-> Dict([type |-> Str("string")])])])

\* the end-to-end legacy tool of the specification's scenario
ReadFileTool ==
    Dict([name |-> Str("read_file"),
          description |-> Str("Reads a file"),
          inputSchema |-> Dict([
              type |-> Str("object"),
              properties |-> Dict([path |-> Dict([type |-> Str("string")])])]),
          routing |-> Dict([
              type |-> Str("subprocess"),
              config |-> Dict([command |-> Str("cat"),
                               args |-> List(<<Str("{path}")>>)])]),
          hidden |-> Bool(TRUE)])

LegacyMetadata ==
    Dict([name |-> Str("File Tools"),
          description |-> Str("Basic file tools"),
          author |-> Str("ops")])

LegacyManifest == Dict([metadata |-> LegacyMetadata,
                        tools |-> List(<<ReadFileTool>>)])
\* a manifest that is already in the enhanced format
EnhancedManifest == _migrate_yaml_content(LegacyManifest, "file_tools")

\* what the input files of a migration run may hold: a legacy manifest, an
\* enhanced one, and text that is no YAML
MigrationDocs == {LegacyManifest, EnhancedManifest, InvalidYaml}

\* the file systems with the given documents in the input directory
FileSystems(docs) ==
    {[p \in Paths |->
        IF p \in {PathParent(q) : q \in InputFiles} THEN Directory
        ELSE IF p \in InputFiles THEN content[p]
        ELSE NoFile] :
     content \in [InputFiles -> {NoFile} \cup {File(0, d) : d \in docs}]}

-----------------------------------------------------------------------------
(* The migration tool as a state machine *)

\* YamlMigrationTool.__init__
InitialStats ==
    [files_processed |-> 0, files_migrated |-> 0, files_skipped |-> 0,
     errors |-> <<>>]

InitMigrationIdle ==
    /\ now = 0
    /\ migration_stats = InitialStats
    /\ mPc = "idle"
    /\ mIn = ""
    /\ mOut = ""
    /\ yaml_files = <<>>
    /\ mIdx = 0
    /\ outcome = <<>>
    /\ calls = 0
    /\ order = <<>>

InitValidatorIdle ==
    /\ results = [s \in BOOLEAN |-> <<>>]
    /\ vPath = ""
    /\ vPc = [s \in BOOLEAN |-> "idle"]
    /\ vFiles = [s \in BOOLEAN |-> <<>>]
    /\ vIdx = [s \in BOOLEAN |-> 0]
    /\ verdict = [s \in BOOLEAN |-> "none"]
    /\ exitStatus = [s \in BOOLEAN |-> -1]

InitClassifierIdle ==
    /\ ident = ""
    /\ meta = EmptyDict
    /\ classified = <<>>

InitManifestIdle ==
    /\ doc = Null
    /\ docStem = ""
    /\ docPhase = "idle"
    /\ enhancedO = FALSE
    /\ enhancedV = FALSE
    /\ migratedDoc = Null
    /\ docDiags = Returned(<<>>)
    /\ migDiags = Returned(<<>>)

InitToolIdle ==
    /\ legacyTool = Null
    /\ enhancedTool = Null
    /\ toolPhase = "idle"

Init ==
    /\ fs \in FileSystems(MigrationDocs)
    /\ fs0 = fs
    /\ create_backup \in BOOLEAN
    /\ InitMigrationIdle
    /\ InitValidatorIdle
    /\ InitClassifierIdle
    /\ InitManifestIdle
    /\ InitToolIdle

\* a caller invokes migrate_file(input_file) with no output_file: in place
MigrateFile(input_file) ==
    /\ mPc # "loop"
    /\ calls < MaxCalls
    /\ LET r == migrate_file(fs, migration_stats, now, create_backup,
                             input_file, "")
       IN /\ fs' = r.fs
          /\ migration_stats' = r.stats
          /\ now' = r.now
          /\ mPc' = IF r.raised THEN "raised" ELSE "file_returned"
    /\ calls' = calls + 1
    /\ mIn' = input_file
    /\ UNCHANGED <<fs0, create_backup, mOut, yaml_files, mIdx, outcome, order>>
    /\ UNCHANGED <<validatorVars, classifierVars, manifestVars, toolVars>>

\* migrate_directory without the check of the input root (lines 80-81)
MigrateDirectory_unchecked(input_dir, output_dir) ==
    /\ mPc # "loop"
    /\ calls < MaxCalls
    /\ calls' = calls + 1
    /\ mIn' = input_dir
    /\ fs' = IF output_dir # "" THEN [fs EXCEPT ![output_dir] = Directory]
             ELSE fs
    /\ mOut' = output_dir
    /\ yaml_files' = Glob(fs, Listing, input_dir)
    /\ mIdx' = 1
    /\ outcome' = <<>>
    /\ mPc' = "loop"
    /\ UNCHANGED <<fs0, now, create_backup, migration_stats, order>>
    /\ UNCHANGED <<validatorVars, classifierVars, manifestVars, toolVars>>

\* migrate_directory(input_dir, output_dir) up to the loop (lines 77-91);
\* output_dir = "" stands for None
MigrateDirectory(input_dir, output_dir) ==
    /\ mPc # "loop"
    /\ calls < MaxCalls
    /\ calls' = calls + 1
    /\ mIn' = input_dir
    /\ IF ~fs[input_dir].exists
       THEN /\ mPc' = "raised"
            /\ UNCHANGED <<fs, mOut, yaml_files, mIdx, outcome>>
       ELSE /\ fs' = IF output_dir # "" THEN [fs EXCEPT ![output_dir] = Directory]
                     ELSE fs
            /\ mOut' = output_dir
            /\ yaml_files' = Glob(fs, Listing, input_dir)
            /\ mIdx' = 1
            /\ outcome' = <<>>
            /\ mPc' = "loop"
    /\ UNCHANGED <<fs0, now, create_backup, migration_stats, order>>
    /\ UNCHANGED <<validatorVars, classifierVars, manifestVars, toolVars>>

\* one iteration of "for yaml_file in yaml_files" (lines 93-113)
MigrateDirectoryStep ==
    /\ mPc = "loop"
    /\ mIdx <= Len(yaml_files)
    /\ LET r == migrate_directory_body(fs, migration_stats, now, create_backup,
                                       yaml_files[mIdx], mIn, mOut)
       IN /\ fs' = r.fs
          /\ migration_stats' = r.stats
          /\ now' = r.now
          /\ outcome' = Append(outcome, r.outcome)
          /\ mPc' = IF r.raised THEN "raised" ELSE "loop"
    /\ mIdx' = mIdx + 1
    /\ UNCHANGED <<fs0, create_backup, mIn, mOut, yaml_files, calls, order>>
    /\ UNCHANGED <<validatorVars, classifierVars, manifestVars, toolVars>>

\* the loop is exhausted: "return self.migration_stats" (line 115)
MigrateDirectoryReturn ==
    /\ mPc = "loop"
    /\ mIdx > Len(yaml_files)
    /\ mPc' = "dir_returned"
    /\ UNCHANGED <<fs, fs0, now, create_backup, migration_stats, mIn, mOut,
                   yaml_files, mIdx, outcome, calls, order>>
    /\ UNCHANGED <<validatorVars, classifierVars, manifestVars, toolVars>>

Next ==
    \/ \E input_file \in InputFiles : MigrateFile(input_file)
    \/ \E input_dir \in {InputDir, MissingDir}, output_dir \in {"", OutputDir} :
          MigrateDirectory(input_dir, output_dir)
    \/ MigrateDirectoryStep
    \/ MigrateDirectoryReturn

Spec == Init /\ [][Next]_vars

-----------------------------------------------------------------------------
(* Properties of the migration tool *)

TerminalOutcomes == {"skipped", "migrated", "failed"}

\* the file the loop of migrate_directory is about to handle fails to migrate
CurrentFileFails ==
    /\ mPc = "loop"
    /\ mIdx <= Len(yaml_files)
    /\ ~_is_already_enhanced(fs, yaml_files[mIdx])
    /\ LET output_path == IF mOut # "" THEN mOut ELSE mIn
       IN migrate_file(fs, migration_stats, now, create_backup,
                       yaml_files[mIdx],
                       OutputFile(yaml_files[mIdx], mIn, output_path)).raised

\* C1: in migrate_directory a failure on one file appends exactly one entry
\* to the errors list and leaves the counters alone, the loop goes on with
\* the next file, and the run ends only by returning, with one terminal
\* outcome (skipped, migrated or failed) for every enumerated file.
C1_FailureNeverAborts ==
    [][mPc = "loop" =>
        /\ mPc' \in {"loop", "dir_returned"}
        /\ CurrentFileFails =>
              /\ Len(migration_stats'.errors) = Len(migration_stats.errors) + 1
              /\ migration_stats'.files_processed = migration_stats.files_processed
              /\ migration_stats'.files_migrated = migration_stats.files_migrated
              /\ migration_stats'.files_skipped = migration_stats.files_skipped
              /\ outcome' = Append(outcome, "failed")
              /\ mIdx' = mIdx + 1
              /\ mPc' = "loop"
        /\ mPc' = "dir_returned" =>
              /\ Len(outcome') = Len(yaml_files)
              /\ \A i \in 1..Len(outcome') : outcome'[i] \in TerminalOutcomes
      ]_vars

\* a run that returned after a failure on its first file and went on to
\* migrate or skip the second
C1_Witness ==
    /\ mPc = "dir_returned"
    /\ Len(outcome) >= 2
    /\ outcome[1] = "failed"
    /\ outcome[2] \in {"migrated", "skipped"}
    /\ Len(migration_stats.errors) = 1

\* number of ERROR results of validating one file
ErrorCount(fsys, file_path) ==
    Len(OfLevel(validate_file(fsys, file_path).diags, ERROR))

\* C2: a manifest written by a migration (it carries the provenance header)
\* is left as it is, up to the header timestamp, by every later migration
\* of it, by migrate_file as well as by migrate_directory, and validating it
\* afterwards yields no new ERROR.
C2_MigrationIsIdempotent ==
    [][\A p \in Paths :
          (fs[p].exists /\ fs[p].hdr > 0) =>
              /\ fs'[p].exists
              /\ fs'[p].doc = fs[p].doc
              /\ ErrorCount(fs', p) <= ErrorCount(fs, p)
      ]_vars

\* C5: with create_backup set, whenever a step overwrites an input file in
\* place, the .backup copy next to it holds the content the file had before
\* the step, for migrate_directory as well as for migrate_file.
C5_BackupBeforeOverwrite ==
    [][create_backup =>
          \A p \in InputFiles :
              fs'[p] # fs[p] => fs'[BackupPath(p)] = fs[p]
      ]_vars

\* the files of the enumerated list that were already enhanced at the start
AlreadyEnhancedAtStart ==
    {i \in 1..Len(yaml_files) : _is_already_enhanced(fs0, yaml_files[i])}

-----------------------------------------------------------------------------
(* The validator as a state machine: two runs of main() on the same path  *)
(* and the same files, one with --strict (strict_mode = TRUE) and one      *)
(* without.                                                                *)

\* an enhanced manifest whose discovery_metadata lacks recommended fields
EnhancedWithWarnings ==
    Put(EnhancedManifest, "metadata",
        Put(Get(EnhancedManifest, "metadata", EmptyDict), "discovery_metadata",
            Dict([llm_enhanced |-> Bool(TRUE)])))
\* a legacy manifest whose tool lacks description, inputSchema and routing
LegacyWithErrors == Dict([tools |-> List(<<Dict([name |-> Str("t")])>>)])
\* a root that is no mapping, and a tool entry that is no mapping
ListRoot == List(<<Str("x")>>)
NonMappingTool == Dict([tools |-> List(<<Str("x")>>)])

\* what the files of a validation run may hold; Null is the empty document
ValidationDocs ==
    {LegacyManifest, EnhancedManifest, EnhancedWithWarnings, LegacyWithErrors,
     Null, ListRoot, NonMappingTool, InvalidYaml}

InitValidation ==
    /\ fs \in FileSystems(ValidationDocs)
    /\ fs0 = fs
    /\ create_backup = FALSE
    /\ InitMigrationIdle
    /\ results = [s \in BOOLEAN |-> <<>>]
    /\ vPath \in {InputDir, Listing[1], MissingDir}
    /\ vPc = [s \in BOOLEAN |-> "main"]
    /\ vFiles = [s \in BOOLEAN |-> <<>>]
    /\ vIdx = [s \in BOOLEAN |-> 0]
    /\ verdict = [s \in BOOLEAN |-> "none"]
    /\ exitStatus = [s \in BOOLEAN |-> -1]
    /\ InitClassifierIdle
    /\ InitManifestIdle
    /\ InitToolIdle

\* main() up to the first file: the path check (lines 495-497), then
\* validate_file on a file path, or validate_directory up to its loop
ValidateMain(s) ==
    /\ vPc[s] = "main"
    /\ IF ~fs[vPath].exists
       THEN /\ vPc' = [vPc EXCEPT ![s] = "exited"]
            /\ exitStatus' = [exitStatus EXCEPT ![s] = 1]
            /\ UNCHANGED <<results, vFiles, vIdx>>
       ELSE IF fs[vPath] # Directory
       THEN LET r == validate_file(fs, vPath)
            IN /\ results' = [results EXCEPT ![s] = @ \o r.diags]
               /\ vPc' = [vPc EXCEPT ![s] = IF r.raised THEN "crashed"
                                            ELSE "print"]
               /\ exitStatus' = [exitStatus EXCEPT ![s] =
                                    IF r.raised THEN 1 ELSE @]
               /\ UNCHANGED <<vFiles, vIdx>>
       ELSE LET found == Glob(fs, Listing, vPath)
            IN /\ vFiles' = [vFiles EXCEPT ![s] = found]
               /\ vIdx' = [vIdx EXCEPT ![s] = 1]
               /\ results' = [results EXCEPT ![s] = Append(@,
                    IF found = <<>>
                    THEN ValidationResult(vPath, WARNING,
                            "No YAML files found in directory")
                    ELSE ValidationResult(vPath, INFO,
                            "Found " \o ToString(Len(found))
                            \o " YAML files to validate"))]
               /\ vPc' = [vPc EXCEPT ![s] = IF found = <<>> THEN "print"
                                            ELSE "loop"]
               /\ UNCHANGED exitStatus
    /\ UNCHANGED <<vPath, verdict>>
    /\ UNCHANGED <<migrationVars, classifierVars, manifestVars, toolVars>>

\* the loop step of validate_directory putting the results of the file in
\* front of the list
ValidateNextFile_prepend(s) ==
    /\ vPc[s] = "loop"
    /\ vIdx[s] <= Len(vFiles[s])
    /\ LET r == validate_file(fs, vFiles[s][vIdx[s]])
       IN /\ results' = [results EXCEPT ![s] = r.diags \o @]
          /\ vPc' = [vPc EXCEPT ![s] = IF r.raised THEN "crashed" ELSE "loop"]
          /\ exitStatus' = [exitStatus EXCEPT ![s] = IF r.raised THEN 1 ELSE @]
    /\ vIdx' = [vIdx EXCEPT ![s] = @ + 1]
    /\ UNCHANGED <<vPath, vFiles, verdict>>
    /\ UNCHANGED <<migrationVars, classifierVars, manifestVars, toolVars>>

\* one iteration of "for yaml_file in yaml_files" (lines 95-96); an
\* exception of validate_file is caught nowhere and ends the process
ValidateNextFile(s) ==
    /\ vPc[s] = "loop"
    /\ vIdx[s] <= Len(vFiles[s])
    /\ LET r == validate_file(fs, vFiles[s][vIdx[s]])
       IN /\ results' = [results EXCEPT ![s] = @ \o r.diags]
          /\ vPc' = [vPc EXCEPT ![s] = IF r.raised THEN "crashed" ELSE "loop"]
          /\ exitStatus' = [exitStatus EXCEPT ![s] = IF r.raised THEN 1 ELSE @]
    /\ vIdx' = [vIdx EXCEPT ![s] = @ + 1]
    /\ UNCHANGED <<vPath, vFiles, verdict>>
    /\ UNCHANGED <<migrationVars, classifierVars, manifestVars, toolVars>>

\* "return self.results" of validate_directory (line 98)
ValidateDirectoryReturn(s) ==
    /\ vPc[s] = "loop"
    /\ vIdx[s] > Len(vFiles[s])
    /\ vPc' = [vPc EXCEPT ![s] = "print"]
    /\ UNCHANGED <<results, vPath, vFiles, vIdx, verdict, exitStatus>>
    /\ UNCHANGED <<migrationVars, classifierVars, manifestVars, toolVars>>

\* success = validator.print_results(); sys.exit(0 if success else 1)
PrintResults(s) ==
    /\ vPc[s] = "print"
    /\ LET r == print_results([strict_mode |-> s, results |-> results[s]])
       IN /\ verdict' = [verdict EXCEPT ![s] = r.status]
          /\ exitStatus' = [exitStatus EXCEPT ![s] =
                                IF r.success THEN 0 ELSE 1]
    /\ vPc' = [vPc EXCEPT ![s] = "exited"]
    /\ UNCHANGED <<results, vPath, vFiles, vIdx>>
    /\ UNCHANGED <<migrationVars, classifierVars, manifestVars, toolVars>>

NextValidation ==
    \E s \in BOOLEAN :
        \/ ValidateMain(s)
        \/ ValidateNextFile(s)
        \/ ValidateDirectoryReturn(s)
        \/ PrintResults(s)

SpecValidation == InitValidation /\ [][NextValidation]_vars

-----------------------------------------------------------------------------
(* Properties of the validator *)

HasLevel(res, level) == \E i \in 1..Len(res) : res[i].level = level

\* C8: validation never aborts a run: no run of the validator ends by an
\* exception, whatever the files hold, and when validate_directory is over
\* every enumerated file has at least one diagnostic.
C8_ValidationNeverAborts ==
    \A s \in BOOLEAN :
        /\ vPc[s] # "crashed"
        /\ vPc[s] \in {"print", "exited"} =>
              \A i \in 1..Len(vFiles[s]) :
                  \E j \in 1..Len(results[s]) :
                      results[s][j].file_path = vFiles[s][i]

\* C9: once print_results has run, the verdict is failure with exit status
\* 1 exactly when the results hold an ERROR; without ERROR it is
\* pass-with-warnings when a WARNING exists and success otherwise, both with
\* exit status 0; INFO results play no part.
C9_VerdictFollowsLevels ==
    \A s \in BOOLEAN :
        (vPc[s] = "exited" /\ verdict[s] # "none") =>
            LET hasError == HasLevel(results[s], ERROR)
                hasWarning == HasLevel(results[s], WARNING)
            IN /\ exitStatus[s] = (IF hasError THEN 1 ELSE 0)
               /\ verdict[s] =
                    (IF hasError THEN "VALIDATION FAILED"
                     ELSE IF hasWarning THEN "VALIDATION PASSED WITH WARNINGS"
                     ELSE "VALIDATION PASSED")

\* a finished run whose results hold INFO and WARNING but no ERROR
C9_Witness ==
    /\ vPc[FALSE] = "exited"
    /\ verdict[FALSE] = "VALIDATION PASSED WITH WARNINGS"
    /\ exitStatus[FALSE] = 0
    /\ HasLevel(results[FALSE], INFO)
    /\ HasLevel(results[FALSE], WARNING)
    /\ ~HasLevel(results[FALSE], ERROR)

-----------------------------------------------------------------------------
(* The classifier on its own: _classify_capability over file identifiers   *)
(* and metadata mappings                                                   *)

\* the words file identifiers are made of: every trigger of the three
\* security buckets, two neutral words and a capitalised trigger
IdentifierWords ==
    <<"admin", "system", "root", "security", "file", "database", "network",
      "delete", "remove", "execute", "tools", "http", "Admin">>

\* identifiers of n words joined by "_"
RECURSIVE IdentifiersOf(_)
IdentifiersOf(n) ==
    IF n = 1 THEN {IdentifierWords[i] : i \in 1..Len(IdentifierWords)}
    ELSE {a \o "_" \o IdentifierWords[i] :
            a \in IdentifiersOf(n - 1), i \in 1..Len(IdentifierWords)}
Identifiers == UNION {IdentifiersOf(n) : n \in 1..MaxWords}

\* metadata with no tools entry, with a tools entry of 0..MaxMetaTools
\* names, and with a tools entry that has no length
ClassifierMetas ==
    {LegacyMetadata, Put(LegacyMetadata, "tools", Null)}
    \cup {Put(LegacyMetadata, "tools", List([i \in 1..n |-> Str("t")])) :
            n \in 0..MaxMetaTools}

InitClassifier ==
    /\ fs = [p \in Paths |-> NoFile]
    /\ fs0 = fs
    /\ create_backup = FALSE
    /\ InitMigrationIdle
    /\ InitValidatorIdle
    /\ ident \in Identifiers
    /\ meta \in ClassifierMetas
    /\ classified = <<>>
    /\ InitManifestIdle
    /\ InitToolIdle

\* security_level, complexity_level, domain, use_cases =
\*     self._classify_capability(file_stem, legacy_metadata)
Classify ==
    /\ classified = <<>>
    /\ classified' = IF ClassifyRaises(meta) THEN <<"raised">>
                     ELSE _classify_capability(ident, meta)
    /\ UNCHANGED <<ident, meta>>
    /\ UNCHANGED <<migrationVars, validatorVars, manifestVars, toolVars>>

NextClassifier == Classify

SpecClassifier == InitClassifier /\ [][NextClassifier]_vars

HasAdminTrigger(id) == AnyIn(<<"admin", "system", "root", "security">>, Lower(id))
HasDeleteTrigger(id) == AnyIn(<<"delete", "remove", "execute">>, Lower(id))

\* C7 as stated: "admin_tools" is classified privileged and "delete_file"
\* dangerous, and an identifier with an admin-bucket trigger and a
\* delete-bucket trigger is classified privileged.
C7_AsStated ==
    Len(classified) = 4 =>
        /\ ident = "admin_tools" => classified[1] = "privileged"
        /\ ident = "delete_file" => classified[1] = "dangerous"
        /\ (HasAdminTrigger(ident) /\ HasDeleteTrigger(ident)) =>
              classified[1] = "privileged"

\* C7 amended: "admin_tools" is classified privileged and "delete_file"
\* restricted, because it contains the trigger "file" of the restricted
\* bucket, which is tested before the delete bucket; an identifier with an
\* admin-bucket trigger and a delete-bucket trigger is classified privileged.
C7_BucketOrder ==
    Len(classified) = 4 =>
        /\ ident = "admin_tools" => classified[1] = "privileged"
        /\ ident = "delete_file" => classified[1] = "restricted"
        /\ (HasAdminTrigger(ident) /\ HasDeleteTrigger(ident)) =>
              classified[1] = "privileged"

\* "delete_file" has been classified
C7_Witness ==
    /\ ident = "delete_file"
    /\ Len(classified) = 4
    /\ classified[1] = "restricted"

-----------------------------------------------------------------------------
(* One manifest through format detection, validation and migration        *)

\* the metadata of the enhanced manifest with another security_level
WithSecurityLevel(security_level) ==
    LET metadata == Get(EnhancedManifest, "metadata", EmptyDict)
    IN Put(metadata, "classification",
           Put(Get(metadata, "classification", EmptyDict),
               "security_level", security_level))

\* metadata of legacy manifests: complete, with an empty or null author,
\* with the protocol version mentioned in the description, a string
\* instead of a mapping; and the metadata of an enhanced manifest, as
\* migration writes it and with other values of security_level
ManifestMetadatas ==
    {LegacyMetadata,
     Put(LegacyMetadata, "author", Str("")),
     Put(LegacyMetadata, "author", Null),
     Put(LegacyMetadata, "description", Str("Tools for MCP 2025-06-18")),
     Str("classification pending"),
     Get(EnhancedManifest, "metadata", EmptyDict),
     WithSecurityLevel(Str("unsafe")),
     WithSecurityLevel(Str("blocked")),
     WithSecurityLevel(Str(""))}

\* a tool with three of the five enhanced sections and nothing else
PartlyEnhancedTool ==
    Dict([name |-> Str("partial"), core |-> EmptyDict,
          execution |-> EmptyDict, discovery |-> EmptyDict])

\* a tool with two of the five enhanced sections
TwoSectionTool ==
    Dict([name |-> Str("two_sections"), core |-> EmptyDict,
          access |-> EmptyDict])

\* a legacy tool whose four required fields are present and empty
EmptyFieldsTool ==
    Dict([name |-> Str(""), description |-> Str(""),
          inputSchema |-> EmptyDict, routing |-> Dict([type |-> Str("")])])

\* a legacy tool whose routing is a string
StringRoutingTool ==
    Dict([name |-> Str("shell"), inputSchema |-> PathSchema,
          routing |-> Str("subprocess")])

ManifestTools ==
    {ReadFileTool, Get(EnhancedManifest, "tools", EmptyList).val[1],
     PartlyEnhancedTool, TwoSectionTool, Str("x"),
     EmptyDict, EmptyFieldsTool, StringRoutingTool}

\* tool lists of up to n tools
RECURSIVE ToolLists(_)
ToolLists(n) ==
    IF n = 0 THEN {<<>>}
    ELSE ToolLists(n - 1)
         \cup {Append(l, t) : l \in {x \in ToolLists(n - 1) : Len(x) = n - 1},
                              t \in ManifestTools}

\* the parsed documents of the manifest run
Manifests ==
    {Null, ListRoot}
    \cup {Dict([tools |-> List(l)]) : l \in ToolLists(MaxTools)}
    \cup {Dict([metadata |-> m, tools |-> List(l)]) :
            m \in ManifestMetadatas, l \in ToolLists(MaxTools)}

ManifestPath == Listing[1]

InitManifest ==
    /\ doc \in Manifests
    /\ fs = [p \in Paths |-> IF p = ManifestPath THEN File(0, doc) ELSE NoFile]
    /\ fs0 = fs
    /\ create_backup = FALSE
    /\ InitMigrationIdle
    /\ InitValidatorIdle
    /\ InitClassifierIdle
    /\ docStem = PathStem(ManifestPath)
    /\ docPhase = "parsed"
    /\ enhancedO = FALSE
    /\ enhancedV = FALSE
    /\ migratedDoc = Null
    /\ docDiags = Returned(<<>>)
    /\ migDiags = Returned(<<>>)
    /\ InitToolIdle

\* the two format checks on the same file
DetectFormat ==
    /\ docPhase = "parsed"
    /\ enhancedO' = _is_already_enhanced(fs, ManifestPath)
    /\ enhancedV' = _is_enhanced_format(safe_load(fs[ManifestPath]))
    /\ docPhase' = "detected"
    /\ UNCHANGED <<doc, docStem, migratedDoc, docDiags, migDiags>>
    /\ UNCHANGED <<migrationVars, validatorVars, classifierVars, toolVars>>

\* validate_file on the file as it is
ValidateOriginal ==
    /\ docPhase = "detected"
    /\ docDiags' = validate_file(fs, ManifestPath)
    /\ docPhase' = "validated"
    /\ UNCHANGED <<doc, docStem, enhancedO, enhancedV, migratedDoc, migDiags>>
    /\ UNCHANGED <<migrationVars, validatorVars, classifierVars, toolVars>>

\* enhanced_content = self._migrate_yaml_content(legacy_content, stem)
MigrateContent ==
    /\ docPhase = "validated"
    /\ IF MigrateYamlContentRaises(doc)
       THEN /\ docPhase' = "migration_raised"
            /\ UNCHANGED migratedDoc
       ELSE /\ docPhase' = "migrated"
            /\ migratedDoc' = _migrate_yaml_content(doc, docStem)
    /\ UNCHANGED <<doc, docStem, enhancedO, enhancedV, docDiags, migDiags>>
    /\ UNCHANGED <<migrationVars, validatorVars, classifierVars, toolVars>>

\* validate_file on the file that holds the migrated manifest
ValidateMigrated ==
    /\ docPhase = "migrated"
    /\ migDiags' = validate_file(
            [fs EXCEPT ![ManifestPath] = _generate_enhanced_yaml(migratedDoc, 1)],
            ManifestPath)
    /\ docPhase' = "done"
    /\ UNCHANGED <<doc, docStem, enhancedO, enhancedV, migratedDoc, docDiags>>
    /\ UNCHANGED <<migrationVars, validatorVars, classifierVars, toolVars>>

NextManifest ==
    \/ DetectFormat
    \/ ValidateOriginal
    \/ MigrateContent
    \/ ValidateMigrated

SpecManifest == InitManifest /\ [][NextManifest]_vars

\* a legacy manifest the claim calls well-formed: the metadata is a mapping,
\* there is at least one tool, and legacy validation reports no ERROR
WellFormedLegacy ==
    /\ IsDict(doc)
    /\ IsDict(Get(doc, "metadata", EmptyDict))
    /\ IsList(Get(doc, "tools", EmptyList))
    /\ Len(Get(doc, "tools", EmptyList).val) >= 1
    /\ ~enhancedV
    /\ ~docDiags.raised
    /\ ~HasLevel(docDiags.diags, ERROR)

\* C3: for every well-formed legacy manifest L, migrate(L) exists and
\* validating it produces zero ERROR-level diagnostics.
C3_RoundTripHasNoError ==
    (docPhase \in {"migration_raised", "done"} /\ WellFormedLegacy) =>
        /\ docPhase = "done"
        /\ ~migDiags.raised
        /\ ~HasLevel(migDiags.diags, ERROR)

\* C4: for every parsed manifest, _is_already_enhanced of the migration tool
\* and _is_enhanced_format of the validator give the same answer.
C4_SameFormatDetection ==
    docPhase # "parsed" => enhancedO = enhancedV

\* the ERROR results about security_level among diags
SecurityLevelErrors(diags) ==
    SelectSeq(diags, LAMBDA r : r.level = ERROR
                                /\ StartsWith(r.message, "Invalid security_level"))

\* C11: in an enhanced manifest whose classification has a security_level,
\* a value outside {safe, restricted, mixed, privileged, dangerous, blocked}
\* gets exactly one ERROR, whose message lists the allowed set, and a member
\* value gets none.
C11_SecurityLevelEnum ==
    (/\ docPhase \notin {"parsed", "detected"}
     /\ enhancedV
     /\ IsDict(doc)
     /\ IsDict(Get(doc, "metadata", EmptyDict))
     /\ IsDict(Get(Get(doc, "metadata", EmptyDict), "classification", Null))
     /\ Has(Get(Get(doc, "metadata", EmptyDict), "classification", Null),
            "security_level"))
    => LET security_level ==
               Get(Get(Get(doc, "metadata", EmptyDict), "classification", Null),
                   "security_level", Null)
           errors == SecurityLevelErrors(docDiags.diags)
       IN IF InWords(security_level, valid_security_levels)
          THEN errors = <<>>
          ELSE /\ Len(errors) = 1
               /\ Contains(errors[1].message,
                    "safe, restricted, mixed, privileged, dangerous, blocked")

\* C12: migrate_directory on a missing input root raises before anything is
\* enumerated, read or written: the file system, the enumerated list, the
\* per-file outcomes, the counters and the errors list are what they were,
\* which on a fresh tool are their initial values.
C12_MissingRootAborts ==
    [][(calls' = calls + 1 /\ mIn' = MissingDir) =>
          /\ mPc' = "raised"
          /\ fs' = fs
          /\ now' = now
          /\ migration_stats' = migration_stats
          /\ yaml_files' = yaml_files
          /\ outcome' = outcome
          /\ calls = 0 => (migration_stats' = InitialStats /\ fs' = fs0)
      ]_vars

\* the first call was migrate_directory on the missing root, while the
\* existing directory holds files
C12_Witness ==
    /\ calls = 1
    /\ mIn = MissingDir
    /\ mPc = "raised"
    /\ migration_stats = InitialStats
    /\ \E p \in InputFiles : fs[p].exists
    /\ fs = fs0

-----------------------------------------------------------------------------
(* The per-file loop of migrate_directory run by workers that take the     *)
(* files in an arbitrary order, one file at a time                         *)

\* the orders in which n files can be taken
Orders(n) == {f \in [1..n -> 1..n] : \A i, j \in 1..n : f[i] = f[j] => i = j}

\* the loop of lines 93-113 over files, in the order of the list
RECURSIVE SequentialRun(_, _, _, _, _, _, _)
SequentialRun(fsys, stats, t, backup, files, input_dir, output_dir) ==
    IF files = <<>> THEN [fs |-> fsys, stats |-> stats, now |-> t]
    ELSE LET r == migrate_directory_body(fsys, stats, t, backup, Head(files),
                                         input_dir, output_dir)
         IN SequentialRun(r.fs, r.stats, r.now, backup, Tail(files),
                          input_dir, output_dir)

\* migrate_directory up to its loop, with the order the workers will follow
StartWorkers(output_dir) ==
    /\ mPc = "idle"
    /\ calls' = calls + 1
    /\ mIn' = InputDir
    /\ fs' = IF output_dir # "" THEN [fs EXCEPT ![output_dir] = Directory]
             ELSE fs
    /\ mOut' = output_dir
    /\ yaml_files' = Glob(fs, Listing, InputDir)
    /\ order' \in Orders(Len(Glob(fs, Listing, InputDir)))
    /\ mIdx' = 1
    /\ outcome' = <<>>
    /\ mPc' = "loop"
    /\ UNCHANGED <<fs0, now, create_backup, migration_stats>>
    /\ UNCHANGED <<validatorVars, classifierVars, manifestVars, toolVars>>

\* a worker runs the loop body on the next file of the order
WorkerStep ==
    /\ mPc = "loop"
    /\ mIdx <= Len(yaml_files)
    /\ LET r == migrate_directory_body(fs, migration_stats, now, create_backup,
                                       yaml_files[order[mIdx]], mIn, mOut)
       IN /\ fs' = r.fs
          /\ migration_stats' = r.stats
          /\ now' = r.now
          /\ outcome' = Append(outcome, r.outcome)
    /\ mIdx' = mIdx + 1
    /\ UNCHANGED <<fs0, create_backup, mPc, mIn, mOut, yaml_files, calls, order>>
    /\ UNCHANGED <<validatorVars, classifierVars, manifestVars, toolVars>>

\* every file was taken: the run returns its statistics
WorkersDone ==
    /\ mPc = "loop"
    /\ mIdx > Len(yaml_files)
    /\ mPc' = "dir_returned"
    /\ UNCHANGED <<fs, fs0, now, create_backup, migration_stats, mIn, mOut,
                   yaml_files, mIdx, outcome, calls, order>>
    /\ UNCHANGED <<validatorVars, classifierVars, manifestVars, toolVars>>

NextOrder ==
    \/ \E output_dir \in {"", OutputDir} : StartWorkers(output_dir)
    \/ WorkerStep
    \/ WorkersDone

SpecOrder == Init /\ [][NextOrder]_vars

\* what the sequential run of migrate_directory gives on the initial files
SequentialResult ==
    SequentialRun(IF mOut # "" THEN [fs0 EXCEPT ![mOut] = Directory] ELSE fs0,
                  InitialStats, 0, create_backup, yaml_files, mIn, mOut)

Range(seq) == {seq[i] : i \in 1..Len(seq)}

ResultsFor(s, file_path) ==
    SelectSeq(results[s], LAMBDA r : r.file_path = file_path)

\* C14: a file that cannot be parsed gets exactly one ERROR and nothing
\* else, from validate_file called on its own and in a directory run, where
\* the loop then goes on with the next file; at the end of a directory run
\* the unparseable file still has that one result and every file after it
\* has results of its own.
C14_ParseFailureIsOneError ==
    /\ [][\A s \in BOOLEAN :
            /\ (/\ vPc[s] = "loop"
                /\ vIdx'[s] = vIdx[s] + 1
                /\ SafeLoadRaises(fs[vFiles[s][vIdx[s]]])) =>
                  /\ Len(results'[s]) = Len(results[s]) + 1
                  /\ SubSeq(results'[s], 1, Len(results[s])) = results[s]
                  /\ results'[s][Len(results'[s])].level = ERROR
                  /\ results'[s][Len(results'[s])].file_path
                        = vFiles[s][vIdx[s]]
                  /\ vPc'[s] = "loop"
            /\ (/\ vPc[s] = "main"
                /\ vPc'[s] # "main"
                /\ fs[vPath].exists
                /\ SafeLoadRaises(fs[vPath])) =>
                  /\ Len(results'[s]) = 1
                  /\ results'[s][1].level = ERROR
                  /\ results'[s][1].file_path = vPath
                  /\ vPc'[s] = "print"
        ]_vars
    /\ [](\A s \in BOOLEAN :
            vPc[s] \in {"print", "exited"} =>
                \A i \in 1..Len(vFiles[s]) :
                    SafeLoadRaises(fs[vFiles[s][i]]) =>
                        /\ Len(ResultsFor(s, vFiles[s][i])) = 1
                        /\ \A j \in (i + 1)..Len(vFiles[s]) :
                              ResultsFor(s, vFiles[s][j]) # <<>>)

\* a finished directory run whose first file is unparseable and whose
\* second file was validated as an enhanced manifest with warnings
C14_Witness ==
    /\ vPc[FALSE] = "exited"
    /\ Len(vFiles[FALSE]) >= 2
    /\ SafeLoadRaises(fs[vFiles[FALSE][1]])
    /\ Len(ResultsFor(FALSE, vFiles[FALSE][1])) = 1
    /\ ResultsFor(FALSE, vFiles[FALSE][1])[1].level = ERROR
    /\ HasLevel(ResultsFor(FALSE, vFiles[FALSE][2]), WARNING)


\* ---------------------------------------------------------------------------
\* Migration of one tool: _migrate_tool_to_enhanced called on a legacy tool
\* mapping that the caller keeps a reference to
\* ---------------------------------------------------------------------------

\* marks a key the legacy tool does not have
Absent == [kind |-> "absent", val |-> 0]

ToolOf(fields) ==
    Dict([k \in {f \in DOMAIN fields : fields[f] # Absent} |-> fields[k]])

ToolNameChoices ==
    {Str(n) : n \in {"read_file", "write_file", "delete_file", "list_directory",
                     "network_scan", "default", "custom_tool", "get_status",
                     "reader"}}
    \cup {Absent, Num(5)}

ContentSchema ==
    Dict([properties |-> Dict([
            content |-> Dict([type |-> Str("string"),
                              validation |-> Dict([max_size_mb |-> Num(1)])]),
            count |-> Dict([type |-> Str("integer")]),
            file_path |-> Str("string")])])

ToolSchemaChoices ==
    {Absent, PathSchema, ContentSchema, EmptyDict, Str("object"),
     Dict([properties |-> EmptyList])}

ToolRoutingChoices ==
    {Absent,
     Dict([type |-> Str("subprocess"),
           config |-> Dict([command |-> Str("cat")])]),
     Dict([type |-> Str("http")]),
     Str("subprocess")}

LegacyTools ==
    {ToolOf([name |-> n, inputSchema |-> sc, routing |-> r]) :
        n \in ToolNameChoices, sc \in ToolSchemaChoices,
        r \in ToolRoutingChoices}
    \cup {ReadFileTool, Str("read_file")}

\* the mapping the caller passed in, as it is once _enhance_input_schema has
\* run: the schema is copied one level deep, so the property mappings that
\* receive the validation hints are the caller's own; additionalProperties
\* is set on the copy only
LegacySchemaAfterEnhance(legacy_schema) ==
    IF Has(legacy_schema, "properties")
    THEN LET props == legacy_schema.val["properties"]
         IN Put(legacy_schema, "properties",
                Dict([k \in DOMAIN props.val |->
                        EnhanceProperty(k, props.val[k])]))
    ELSE legacy_schema

\* the caller's tool mapping after the call, returned or raised; the name and
\* the description are read before the schema is enhanced, the routing after
LegacyToolAfterMigration(legacy_tool) ==
    IF \/ GetRaises(legacy_tool)
       \/ ~Has(legacy_tool, "inputSchema")
       \/ Get(legacy_tool, "name", Str("unknown_tool")).kind \in {"list", "dict"}
       \/ EnhanceInputSchemaRaises(legacy_tool.val["inputSchema"])
    THEN legacy_tool
    ELSE Put(legacy_tool, "inputSchema",
             LegacySchemaAfterEnhance(legacy_tool.val["inputSchema"]))

InitTool ==
    /\ legacyTool \in LegacyTools
    /\ enhancedTool = Null
    /\ toolPhase = "given"
    /\ create_backup = FALSE
    /\ fs = [p \in Paths |-> NoFile]
    /\ fs0 = fs
    /\ InitMigrationIdle
    /\ InitValidatorIdle
    /\ InitClassifierIdle
    /\ InitManifestIdle

MigrateTool ==
    /\ toolPhase = "given"
    /\ legacyTool' = LegacyToolAfterMigration(legacyTool)
    /\ IF MigrateToolRaises(legacyTool)
       THEN /\ toolPhase' = "raised"
            /\ enhancedTool' = enhancedTool
       ELSE /\ toolPhase' = "migrated"
            /\ enhancedTool' = _migrate_tool_to_enhanced(legacyTool)
    /\ UNCHANGED <<migrationVars, validatorVars, classifierVars, manifestVars>>

NextTool == MigrateTool

SpecTool == InitTool /\ [][NextTool]_vars

SecurityLevels == <<"safe", "restricted", "privileged", "dangerous">>

ToSet(seq) == {seq[i] : i \in 1..Len(seq)}

ClassificationOf(enhanced_tool) ==
    enhanced_tool.val["execution"].val["security"].val["classification"].val

PermissionsOf(enhanced_tool) ==
    {n.val : n \in ToSet(enhanced_tool.val["access"].val["requires_permissions"].val)}

\* C15: the permissions a migrated tool requires grow along the chain safe,
\* restricted, privileged, dangerous: the list of each level contains the
\* list of the level below it, a migrated tool requires every permission of
\* every level up to its own classification, and a safe tool requires the
\* base execute permission and nothing else
C15_PermissionsMonotonic ==
    /\ \A i \in 1..3 :
          ToSet(_determine_permissions(SecurityLevels[i]))
              \subseteq ToSet(_determine_permissions(SecurityLevels[i + 1]))
    /\ _determine_permissions("safe") = <<"tool:execute">>
    /\ toolPhase = "migrated" =>
          \A i \in 1..4 :
              ClassificationOf(enhancedTool) = SecurityLevels[i] =>
                  /\ \A j \in 1..i :
                        ToSet(_determine_permissions(SecurityLevels[j]))
                            \subseteq PermissionsOf(enhancedTool)
                  /\ i = 1 => PermissionsOf(enhancedTool) = {"tool:execute"}

\* a dangerous tool migrated with all four permissions, the top of the chain
C15_Witness ==
    /\ toolPhase = "migrated"
    /\ ClassificationOf(enhancedTool) = "dangerous"
    /\ PermissionsOf(enhancedTool) =
          {"tool:execute", "security:validated", "admin:elevated",
           "approval:required"}

\* C16: every tool the migration produces has a name and the five sections
\* core, execution, discovery, monitoring and access, each a populated
\* mapping, whatever keys the legacy tool mapping had
C16_AllSectionsPresent ==
    toolPhase = "migrated" =>
        /\ Has(enhancedTool, "name")
        /\ IsStr(enhancedTool.val["name"])
        /\ enhancedTool.val["name"].val # ""
        /\ \A section \in {"core", "execution", "discovery", "monitoring",
                           "access"} :
              /\ Has(enhancedTool, section)
              /\ IsDict(enhancedTool.val[section])
              /\ DOMAIN enhancedTool.val[section].val # {}

\* the legacy tool mapping with no key at all is migrated to a full tool
C16_Witness ==
    /\ toolPhase = "migrated"
    /\ legacyTool = EmptyDict
    /\ enhancedTool.val["name"] = Str("enhanced_unknown_tool")
    /\ Has(enhancedTool, "monitoring")

\* C20: migrating a tool leaves the legacy tool mapping as it was: the
\* validation hints appear in the enhanced tool only
C20_LegacyToolUntouched ==
    [][toolPhase = "given" /\ toolPhase' = "migrated" =>
          legacyTool' = legacyTool]_vars


\* the manifest run is over for a legacy manifest whose only tool is the
\* read_file tool of the scenario
ReadFileManifestMigrated ==
    /\ docPhase \in {"migration_raised", "done"}
    /\ IsDict(doc)
    /\ IsDict(Get(doc, "metadata", EmptyDict))
    /\ Get(doc, "tools", EmptyList) = List(<<ReadFileTool>>)
    /\ ~enhancedO

\* what the scenario says about the migrated read_file tool
ReadFileToolFacts(enhanced_tool) ==
    /\ enhanced_tool.val["name"] = Str("enhanced_read_file")
    /\ ClassificationOf(enhanced_tool) = "restricted"
    /\ "security:validated" \in PermissionsOf(enhanced_tool)
    /\ enhanced_tool.val["core"].val["input_schema"].val["properties"]
           .val["path"].val["validation"].val["path_traversal_protection"]
         = Bool(TRUE)

\* C17: migrating a legacy manifest whose only tool is read_file yields one
\* tool, enhanced_read_file, classified restricted, requiring
\* security:validated, with path traversal protection on its path property,
\* and validating the migrated manifest reports no ERROR; the classification
\* is the one of the static table, restricted for names not in it
C17_ReadFileScenario ==
    /\ \A n \in {"read_file", "list_directory", "delete_file", "network_scan",
                 "custom_tool", "default"} :
          tool_security_mapping(n) =
              CASE n = "list_directory" -> "safe"
                [] n = "delete_file" -> "dangerous"
                [] n = "network_scan" -> "privileged"
                [] OTHER -> "restricted"
    /\ ReadFileManifestMigrated =>
          /\ docPhase = "done"
          /\ Len(migratedDoc.val["tools"].val) = 1
          /\ ReadFileToolFacts(migratedDoc.val["tools"].val[1])
          /\ ~migDiags.raised
          /\ ~HasLevel(migDiags.diags, ERROR)


HasFileTrigger(id) == AnyIn(<<"file", "database", "network">>, Lower(id))

\* C18: the security level of a classified identifier is that of the first
\* bucket, in the order privileged (admin, system, root, security),
\* restricted (file, database, network), dangerous (delete, remove,
\* execute), with a trigger contained in the lower-cased identifier, and
\* safe when no bucket has one
C18_FirstBucketWins ==
    Len(classified) = 4 =>
        /\ HasAdminTrigger(ident) => classified[1] = "privileged"
        /\ (~HasAdminTrigger(ident) /\ HasFileTrigger(ident)) =>
              classified[1] = "restricted"
        /\ (~HasAdminTrigger(ident) /\ ~HasFileTrigger(ident)
              /\ HasDeleteTrigger(ident)) => classified[1] = "dangerous"
        /\ (~HasAdminTrigger(ident) /\ ~HasFileTrigger(ident)
              /\ ~HasDeleteTrigger(ident)) => classified[1] = "safe"

\* a capitalised admin trigger together with triggers of the two other
\* buckets has been classified privileged
C18_Witness ==
    /\ ident \in {"Admin_file", "Admin_delete"}
    /\ Len(classified) = 4
    /\ classified[1] = "privileged"


\* the enumerated files whose terminal state is o
FilesWithOutcome(o) == {i \in 1..Len(outcome) : outcome[i] = o}

\* C19: when migrate_directory returns on a fresh tool, every enumerated
\* file has one terminal state and is counted once: files_skipped counts
\* the skipped files, files_migrated the migrated ones, the errors list has
\* one entry for each failed one, and the three add up to the number of
\* enumerated files
C19_EveryFileCountedOnce ==
    (mPc = "dir_returned" /\ calls = 1) =>
        /\ Len(outcome) = Len(yaml_files)
        /\ \A i \in 1..Len(outcome) : outcome[i] \in TerminalOutcomes
        /\ migration_stats.files_skipped = Cardinality(FilesWithOutcome("skipped"))
        /\ migration_stats.files_migrated = Cardinality(FilesWithOutcome("migrated"))
        /\ Len(migration_stats.errors) = Cardinality(FilesWithOutcome("failed"))
        /\ migration_stats.files_skipped + migration_stats.files_migrated
             + Len(migration_stats.errors) = Len(yaml_files)

\* a first directory run that skipped one file and failed on the other
C19_Witness ==
    /\ mPc = "dir_returned"
    /\ calls = 1
    /\ Len(yaml_files) = 2
    /\ migration_stats.files_skipped = 1
    /\ migration_stats.files_migrated = 0
    /\ Len(migration_stats.errors) = 1


\* the name the migration reads from the legacy tool
ToolNameOf(legacy_tool) == Get(legacy_tool, "name", Str("unknown_tool")).val

PerformanceOf(enhanced_tool) ==
    enhanced_tool.val["execution"].val["performance"]

\* C21: in execution.performance of a migrated tool, cache_results is true
\* and cache_ttl_seconds is 300 when the tool name starts with "read" or
\* with "get", and cache_results is false and cache_ttl_seconds is 0
\* otherwise, so that cache_results is true exactly when the TTL is 300
C21_CacheableHasTtl ==
    toolPhase = "migrated" =>
        LET cacheable == \/ StartsWith(ToolNameOf(legacyTool), "read")
                         \/ StartsWith(ToolNameOf(legacyTool), "get")
            performance == PerformanceOf(enhancedTool)
        IN /\ performance.val["cache_results"] = Bool(cacheable)
           /\ performance.val["cache_ttl_seconds"] =
                  Num(IF cacheable THEN 300 ELSE 0)
           /\ performance.val["cache_results"] = Bool(TRUE)
                <=> performance.val["cache_ttl_seconds"] = Num(300)

SecurityOf(enhanced_tool) == enhanced_tool.val["execution"].val["security"]

\* C30: in every migrated tool access.approval_required is true exactly
\* when execution.security has requires_approval = true, which is exactly
\* when the classification is dangerous or privileged, and access.user_groups
\* is [all] when the classification is safe and [administrators] otherwise
C30_ApprovalMarkersAgree ==
    toolPhase = "migrated" =>
        LET access == enhancedTool.val["access"]
            needs_approval ==
                ClassificationOf(enhancedTool) \in {"dangerous", "privileged"}
        IN /\ access.val["approval_required"] = Bool(needs_approval)
           /\ (/\ Has(SecurityOf(enhancedTool), "requires_approval")
               /\ SecurityOf(enhancedTool).val["requires_approval"] = Bool(TRUE))
                <=> needs_approval
           /\ access.val["user_groups"] =
                  List(<<Str(IF ClassificationOf(enhancedTool) = "safe"
                             THEN "all" ELSE "administrators")>>)

\* a privileged tool migrated with both approval markers set
C30_Witness ==
    /\ toolPhase = "migrated"
    /\ ClassificationOf(enhancedTool) = "privileged"
    /\ enhancedTool.val["access"].val["approval_required"] = Bool(TRUE)
    /\ SecurityOf(enhancedTool).val["requires_approval"] = Bool(TRUE)
    /\ enhancedTool.val["access"].val["user_groups"] =
          List(<<Str("administrators")>>)


EnhancedMetadataKeys == {"classification", "discovery_metadata", "mcp_capabilities"}

EnhancedSections == {"core", "execution", "discovery", "monitoring", "access"}

\* the metadata of the manifest is a mapping with an enhanced key
MetadataIsEnhanced(content) ==
    /\ IsDict(content)
    /\ Has(content, "metadata")
    /\ IsDict(content.val["metadata"])
    /\ EnhancedMetadataKeys \cap DOMAIN content.val["metadata"].val # {}

\* the first tool of the manifest is a mapping with three enhanced sections
FirstToolIsEnhanced(content) ==
    /\ IsDict(content)
    /\ Has(content, "tools")
    /\ IsList(content.val["tools"])
    /\ Len(content.val["tools"].val) >= 1
    /\ IsDict(content.val["tools"].val[1])
    /\ Cardinality(EnhancedSections
                     \cap DOMAIN content.val["tools"].val[1].val) >= 3

\* C22: the validator's format detector answers enhanced exactly when the
\* metadata mapping has one of classification, discovery_metadata,
\* mcp_capabilities, or the first tool has at least 3 of the 5 sections;
\* the tools after the first do not matter and a root that is not a mapping
\* is not enhanced
C22_ValidatorFormatRule ==
    docPhase # "parsed" =>
        /\ enhancedV <=> (MetadataIsEnhanced(doc) \/ FirstToolIsEnhanced(doc))
        /\ ~IsDict(doc) => ~enhancedV

\* a manifest detected as legacy although its second tool has all sections,
\* and one detected as enhanced by a first tool with exactly three
C22_Witness ==
    /\ docPhase # "parsed"
    /\ IsDict(doc)
    /\ ~Has(doc, "metadata")
    /\ \/ /\ doc.val["tools"].val =
               <<ReadFileTool, Get(EnhancedManifest, "tools", EmptyList).val[1]>>
          /\ ~enhancedV
       \/ /\ doc.val["tools"].val = <<PartlyEnhancedTool, TwoSectionTool>>
          /\ enhancedV


\* a tool mapping without one of the five sections
LacksSection(tool) ==
    IsDict(tool) /\ \E section \in EnhancedSections : ~Has(tool, section)

\* what the validator is to leave behind for tool number index (from 0): one
\* ERROR and nothing else when a section is absent, the tool's own checks
\* otherwise
ExpectedForTool(file_path, tool, index) ==
    IF LacksSection(tool)
    THEN Returned(<<ValidationResult(file_path, ERROR,
            "Tool '"
            \o Fmt(Get(tool, "name", Str("tool_" \o ToString(index))))
            \o "': Missing required sections: "
            \o Join(", ", MissingKeys(required_enhanced_tool_sections, tool)))>>)
    ELSE _validate_enhanced_tool(file_path, tool, index)

RECURSIVE ExpectedForTools(_, _, _)
ExpectedForTools(file_path, tools, i) ==
    IF i > Len(tools) THEN Returned(<<>>)
    ELSE Then(ExpectedForTool(file_path, tools[i], i - 1),
              ExpectedForTools(file_path, tools, i + 1))

\* the manifest was validated as enhanced and has a list of tools
EnhancedToolsValidated ==
    /\ docPhase \notin {"parsed", "detected"}
    /\ enhancedV
    /\ IsList(Get(doc, "tools", EmptyList))
    /\ Len(Get(doc, "tools", EmptyList).val) >= 1

\* C23: an enhanced tool without one of its sections gets exactly one ERROR
\* and none of the results of the section checks, and the tools before and
\* after it get the results of their own checks
C23_MissingSectionSkipsTool ==
    EnhancedToolsValidated =>
        docDiags =
            Then(Returned(<<ValidationResult(ManifestPath, INFO,
                    "Detected format: Enhanced MCP 2025-06-18")>>),
            Then(_validate_enhanced_metadata(ManifestPath,
                                             Get(doc, "metadata", EmptyDict)),
                 ExpectedForTools(ManifestPath, doc.val["tools"].val, 1)))

\* the results about tools among diags
ToolResults(diags) ==
    SelectSeq(diags, LAMBDA r : StartsWith(r.message, "Tool '"))

\* a tool with three sections followed by a tool with none: one ERROR each
C23_Witness ==
    /\ EnhancedToolsValidated
    /\ doc = Dict([tools |-> List(<<PartlyEnhancedTool, ReadFileTool>>)])
    /\ ~docDiags.raised
    /\ Len(ToolResults(docDiags.diags)) = 2
    /\ \A i \in 1..2 : ToolResults(docDiags.diags)[i].level = ERROR
    /\ StartsWith(ToolResults(docDiags.diags)[1].message,
                  "Tool 'partial': Missing required sections: ")


RECURSIVE SumSeq(_)
SumSeq(seq) == IF seq = <<>> THEN 0 ELSE Head(seq) + SumSeq(Tail(seq))

\* the manifest was validated as legacy and has a list of tool mappings
LegacyToolsValidated ==
    /\ docPhase \notin {"parsed", "detected"}
    /\ IsDict(doc)
    /\ ~enhancedV
    /\ IsList(Get(doc, "tools", EmptyList))
    /\ Len(Get(doc, "tools", EmptyList).val) >= 1

\* routing.type of a legacy tool, Absent when the tool has no routing, the
\* routing is no mapping or the routing has no type
RoutingTypeOf(tool) ==
    IF Has(tool, "routing") /\ IsDict(tool.val["routing"])
    THEN Get(tool.val["routing"], "type", Absent)
    ELSE Absent

\* the four required fields of a legacy tool, Absent for a missing one
RequiredFieldsOf(tool) ==
    <<Get(tool, "name", Absent), Get(tool, "description", Absent),
      Get(tool, "inputSchema", Absent), RoutingTypeOf(tool)>>

\* number of required fields the tool does not have
AbsentFields(tool) ==
    Cardinality({k \in 1..4 : RequiredFieldsOf(tool)[k] = Absent})

\* number of required fields the tool does not have or has with an empty
\* value (empty string, empty mapping, empty list, null, 0, false)
AbsentOrEmptyFields(tool) ==
    Cardinality({k \in 1..4 : \/ RequiredFieldsOf(tool)[k] = Absent
                              \/ ~Truthy(RequiredFieldsOf(tool)[k])})

\* C24 as stated: on the legacy path the number of ERROR results is the
\* number of fields absent among name, description, inputSchema and
\* routing.type, summed over the tools, so a tool with all four present
\* gives none
C24_AsStated ==
    (LegacyToolsValidated /\ ~docDiags.raised) =>
        Len(OfLevel(docDiags.diags, ERROR)) =
            SumSeq([i \in 1..Len(doc.val["tools"].val) |->
                        AbsentFields(doc.val["tools"].val[i])])

\* the key of the messages about tool number index (from 0)
LegacyToolKey(tool, index) ==
    "Tool '" \o Fmt(Get(tool, "name", Str("tool_" \o ToString(index)))) \o "': "

\* the results about tool number index whose message starts with its key
KeyedResults(diags, tool, index) ==
    SelectSeq(diags, LAMBDA r : StartsWith(r.message, LegacyToolKey(tool, index)))

\* C24 amended: on the legacy path the number of ERROR results is the number
\* of fields among name, description, inputSchema and routing.type that are
\* absent or empty, summed over the tools: a present field with an empty
\* value is reported as missing too. Every result after the format line is
\* an ERROR, a missing name is reported by position ("Tool i: Missing name")
\* and the other fields under the tool's name, or under tool_i when the tool
\* has no name key. The validation ends by an exception instead only when a
\* tool, or its routing, is not a mapping.
C24_AbsentOrEmptyFields ==
    /\ (LegacyToolsValidated /\ docDiags.raised) =>
          \E i \in 1..Len(doc.val["tools"].val) :
             LET tool == doc.val["tools"].val[i]
             IN ~IsDict(tool) \/ ~IsDict(Get(tool, "routing", EmptyDict))
    /\ (LegacyToolsValidated /\ ~docDiags.raised) =>
        LET tools == doc.val["tools"].val
            diags == docDiags.diags
        IN /\ Len(OfLevel(diags, ERROR)) =
                SumSeq([i \in 1..Len(tools) |-> AbsentOrEmptyFields(tools[i])])
           /\ Len(diags) = 1 + Len(OfLevel(diags, ERROR))
           /\ \A i \in 1..Len(tools) :
                 LET fields == RequiredFieldsOf(tools[i])
                     missing_name == fields[1] = Absent \/ ~Truthy(fields[1])
                 IN /\ missing_name <=>
                         \E k \in 1..Len(diags) :
                            diags[k].message =
                                "Tool " \o ToString(i - 1) \o ": Missing name"
                    /\ AbsentOrEmptyFields(tools[i]) > BoolToInt(missing_name)
                         => KeyedResults(diags, tools[i], i - 1) # <<>>

\* a tool whose four fields are present and empty, then a tool with no key:
\* four ERRORs each, the second tool's under its position
C24_Witness ==
    /\ LegacyToolsValidated
    /\ ~docDiags.raised
    /\ doc.val["tools"].val = <<EmptyFieldsTool, EmptyDict>>
    /\ Len(OfLevel(docDiags.diags, ERROR)) = 8
    /\ Len(KeyedResults(docDiags.diags, EmptyDict, 1)) = 3


\* ---------------------------------------------------------------------------
\* Batch runs: a session is either a run of the migration tool or a run of
\* the validators
\* ---------------------------------------------------------------------------

InitBatch == Init \/ InitValidation

NextBatch ==
    \/ vPc = [s \in BOOLEAN |-> "idle"] /\ Next
    \/ NextValidation

SpecBatch == InitBatch /\ [][NextBatch]_vars

\* position of a path in the files enumerated by validator s, 0 for the
\* directory itself
FilePos(s, file_path) ==
    IF \E i \in 1..Len(vFiles[s]) : vFiles[s][i] = file_path
    THEN CHOOSE i \in 1..Len(vFiles[s]) : vFiles[s][i] = file_path
    ELSE 0

\* the positions of the failed files of the current directory run, ascending
FailedPositions ==
    SelectSeq([i \in 1..Len(outcome) |-> i], LAMBDA i : outcome[i] = "failed")

\* C25: in a batch run the results list of the validator only grows at its
\* end, a step of the loop appends results of the current file only, so that
\* the results of one file are contiguous and come before those of every
\* later file; a step of the migration loop appends at most one entry, about
\* the current file, at the end of the errors list, so that the errors of a
\* first run are those of the failed files in processing order
C25_AggregatesFollowOrder ==
    /\ [][/\ \A s \in BOOLEAN :
               /\ Len(results'[s]) >= Len(results[s])
               /\ SubSeq(results'[s], 1, Len(results[s])) = results[s]
               /\ (vPc[s] = "loop" /\ vIdx'[s] = vIdx[s] + 1) =>
                     \A k \in (Len(results[s]) + 1)..Len(results'[s]) :
                         results'[s][k].file_path = vFiles[s][vIdx[s]]
          /\ (mPc = "loop" /\ mIdx' = mIdx + 1) =>
               \/ migration_stats'.errors = migration_stats.errors
               \/ migration_stats'.errors =
                     Append(migration_stats.errors,
                            "Failed to migrate " \o yaml_files[mIdx])
         ]_vars
    /\ [](\A s \in BOOLEAN :
            \A j, k \in 1..Len(results[s]) :
                j < k => FilePos(s, results[s][j].file_path)
                           <= FilePos(s, results[s][k].file_path))
    /\ []((calls = 1 /\ mPc \in {"loop", "dir_returned"}) =>
            migration_stats.errors =
                [k \in 1..Len(FailedPositions) |->
                    "Failed to migrate " \o yaml_files[FailedPositions[k]]])

\* a directory run of the validator is over with several results for each
\* of two files
C25_Witness ==
    /\ vPc[FALSE] \in {"print", "exited"}
    /\ Len(vFiles[FALSE]) = 2
    /\ Len(ResultsFor(FALSE, vFiles[FALSE][1])) >= 2
    /\ Len(ResultsFor(FALSE, vFiles[FALSE][2])) >= 2
    /\ results[FALSE][Len(results[FALSE])].file_path = vFiles[FALSE][2]


\* number of entries of the tools list inside the legacy metadata, 0 when
\* the metadata has none
MetadataToolsCount ==
    IF Has(meta, "tools") THEN Len(meta.val["tools"].val) ELSE 0

\* C26: the complexity level of a classified manifest is decided by the
\* number n of entries of the tools list inside its legacy metadata alone:
\* very_complex for n > 10, complex for 5 < n <= 10, moderate for
\* 2 < n <= 5, simple for n <= 2, and so simple when the metadata has no
\* tools entry
C26_ComplexityFromMetadataTools ==
    Len(classified) = 4 =>
        /\ classified[2] =
              (IF MetadataToolsCount > 10 THEN "very_complex"
               ELSE IF MetadataToolsCount > 5 THEN "complex"
               ELSE IF MetadataToolsCount > 2 THEN "moderate"
               ELSE "simple")
        /\ ~Has(meta, "tools") => classified[2] = "simple"

\* a metadata with eleven tools entries has been classified very_complex
C26_Witness ==
    /\ Len(classified) = 4
    /\ Has(meta, "tools")
    /\ MetadataToolsCount = 11
    /\ classified[2] = "very_complex"


\* C27: with create_backup set, after any sequence of in-place migrate_file
\* calls and no directory run, the .backup file next to the path migrated
\* last holds the content that path had before the first call
C27_BackupKeepsOriginal ==
    (/\ create_backup
     /\ calls >= 1
     /\ mIn \in InputFiles
     /\ yaml_files = <<>>
     /\ fs0[mIn].exists)
    => fs[BackupPath(mIn)] = fs0[mIn]


\* C28: a migrate_file call that fails leaves the three counters and the
\* output file as they were, and a step of the directory loop for a file
\* that fails changes nothing but the errors list, which gets one new entry
C28_FailureChangesOnlyErrors ==
    [][/\ (calls' = calls + 1 /\ mIn' \in InputFiles /\ mPc' = "raised") =>
            /\ migration_stats' = migration_stats
            /\ fs'[mIn'] = fs[mIn']
       /\ (mPc = "loop" /\ mIdx' = mIdx + 1
             /\ outcome' = Append(outcome, "failed")) =>
            /\ migration_stats' =
                  [migration_stats EXCEPT !.errors =
                      Append(@, "Failed to migrate " \o yaml_files[mIdx])]
            /\ fs' = fs
            /\ now' = now
      ]_vars


\* C29: after any sequence of migrate_file and migrate_directory calls on
\* one tool files_processed equals files_migrated; no step decreases either
\* counter, a step that writes a migrated file adds one to both, and every
\* other step (a skipped file, a failed file, a call that raises) leaves
\* both as they were
C29_ProcessedEqualsMigrated ==
    /\ [](migration_stats.files_processed = migration_stats.files_migrated)
    /\ [][LET written == now' # now
          IN /\ migration_stats'.files_processed =
                    migration_stats.files_processed + BoolToInt(written)
             /\ migration_stats'.files_migrated =
                    migration_stats.files_migrated + BoolToInt(written)
             /\ written => \E p \in Paths :
                              fs'[p].exists /\ fs'[p].hdr = now' /\ fs'[p] # fs[p]
             /\ (mPc = "loop" /\ mIdx' = mIdx + 1
                   /\ outcome'[mIdx] \in {"skipped", "failed"}) => ~written
         ]_vars

\* two calls on one tool wrote two files and met one failure
C29_Witness ==
    /\ calls = 2
    /\ migration_stats.files_processed = 2
    /\ migration_stats.files_migrated = 2
    /\ Len(migration_stats.errors) >= 1

====
